---- MODULE Spec2Model ----
(***************************************************************************)
(* HookWise reliable delivery engine: ingestion endpoint, circuit breaker, *)
(* delivery worker, retry handler, health prober and ordered replay        *)
(* engine, as a state machine over the persisted tables (events,           *)
(* deliveries, endpoints, replay_queue), the task queue topics and the     *)
(* position of every running handler.  One action per Inngest step or      *)
(* database statement of the handlers.                                     *)
(***************************************************************************)
EXTENDS Integers, Sequences, FiniteSets, TLC

VARIABLES
  req,            \* the ingestion request being served (POST /ingest/{id})
  events,         \* events table, in insertion order; index = event id
  sendInFlight,   \* event ids whose un-awaited inngest.send has not settled
  rcvQ,           \* webhook/received tasks waiting, per event id
  retryQ,         \* webhook/retry tasks waiting
  replayStartedQ, \* endpoint/replay-started tasks waiting
  circuitOpened,  \* endpoint/circuit-opened emissions so far
  wk,             \* delivery / retry handler instances
  deliveries,     \* deliveries table, in attempted_at order
  endpoints,      \* endpoints table
  replayQueue,    \* replay_queue table, in created_at order; index = item id
  prober,         \* the health-check cron runs
  replay,         \* the replay engine runs
  dest,           \* what the destination currently answers
  hist,           \* history of the run (observations only, never read by the code)
  created,        \* integrations created through the management API
  recon,          \* the reconciliation cycle being run
  reconciliationRuns, \* reconciliation_runs table, in ran_at order
  tx,             \* breaker transactions, statement by statement
  clsCall         \* a call of the error classifier: its arguments and what it returned

\* the tables and runs of the management API, the reconciliation engine, the
\* breaker transactions and the classifier call
mgmt == << created, recon, reconciliationRuns, tx, clsCall >>

vars == << req, events, sendInFlight, rcvQ, retryQ, replayStartedQ, circuitOpened,
           wk, deliveries, endpoints, replayQueue, prober, replay, dest, hist,
           created, recon, reconciliationRuns, tx, clsCall >>

----------------------------------------------------------------------------
(* Bounds of the model *)

MaxEvents == 12      \* events accepted in a run
MaxQueue == 1        \* events that arrive while the circuit is open
MaxIngest == 2       \* events accepted when the ingestion endpoint runs alone
MaxFlips == 1        \* times the destination changes its behaviour
MaxFailures == 7     \* POSTs the destination fails before it recovers for good
MaxOverlapEvents == 4  \* events accepted in a run whose handlers overlap
MaxManual == 1       \* requests to the manual replay API
MaxCycles == 2
MaxCalls == 3        \* breaker calls issued concurrently on the endpoint
MaxPriorFailures == 4  \* failed deliveries recorded before the concurrent calls
MaxPriorProbes == 3    \* successful probes recorded before the concurrent calls       \* reconciliation cycles in a run

(* Program constants *)

SLIDING_WINDOW_SIZE == 20
CONSECUTIVE_FAILURES_THRESHOLD == 5
SUCCESS_RATE_OPEN_THRESHOLD == 50
HEALTH_CHECKS_FOR_HALF_OPEN == 3
SUCCESSES_FOR_CLOSED == 10
HALF_OPEN_FAILURE_THRESHOLD == 2
MIN_WINDOW_FOR_RATE == 5
BASE_TIMEOUT_MS == 5000
BATCH_SIZE == 10
MAX_SKIP_ATTEMPTS == 3
SUCCESSES_PER_TIER == 5

Workers == {"w1", "w2"}
Probers == {"p1", "p2"}
Runs == {"r1", "r2"}
EndpointIds == {"ep1"}
NoStatus == 0          \* statusCode null (no HTTP response was received)
Null == "null"

----------------------------------------------------------------------------
(* Integrations table.  Rows present from the start: i1 (Stripe, active,    *)
(* API key set, owns endpoint ep1), i2 (paused) and i4 (Shopify, active,   *)
(* API key set, destination on a myshopify.com host).  i3 is the row the   *)
(* management API inserts; any other id is unknown.                        *)

IntegrationIds == {"i1", "i2", "i4"}
RequestTargets == {"i1", "i2", "i9"}

IntegrationStatus(i) == IF i \in {"i1", "i3", "i4"} THEN "active" ELSE "paused"

\* integrations.api_key_encrypted is not null
HasApiKey(i) == i \in {"i1", "i4"}

getEndpointForIntegration(i) == IF i = "i1" THEN "ep1" ELSE Null

\* the integrations table has a row with this id
IntegrationExists(i) == i \in IntegrationIds \cup created

----------------------------------------------------------------------------
(* Request bodies and their JSON reading *)

BodyEvt1 == "{\"id\":\"evt_1\"}"
BodyNoId == "{\"type\":\"ping\"}"
BodyBad  == "not json"
\* two Stripe events about the same customer
BodyCharge == "{\"id\":\"evt_1\",\"data\":{\"object\":{\"customer\":\"cus_1\"}}}"
BodyRefund == "{\"id\":\"evt_2\",\"data\":{\"object\":{\"customer\":\"cus_1\"}}}"

\* a JSON text whose value is null: JSON.parse returns null without throwing
BodyNull == " null "

\* a Shopify orders/create notification: the order, sent with the header
\* x-shopify-webhook-id: wh_1
BodyOrder == "{\"id\":1001}"

Bodies == {BodyEvt1, BodyNoId, BodyBad}

AnyBodies == Bodies \cup {BodyNull}

\* The requests of a run that carry the Stripe event evt_1 (the provider sends it
\* again); the other requests carry no event id.
Retransmitted == {3, 6}

JsonValid(b) == b \in {BodyEvt1, BodyNoId, BodyCharge, BodyRefund, BodyOrder}

JsonParse(b) ==
  IF b = BodyEvt1 THEN [id |-> "evt_1"]
  ELSE IF b = BodyCharge THEN [id |-> "evt_1", data |-> [object |-> [customer |-> "cus_1"]]]
  ELSE IF b = BodyRefund THEN [id |-> "evt_2", data |-> [object |-> [customer |-> "cus_1"]]]
  ELSE IF b = BodyOrder THEN [id |-> "1001"]
  ELSE [type |-> "ping"]

\* JSON.parse(payload) is null
PayloadIsNull(b) == b = BodyNull

\* route.ts lines 88-93: JSON.parse, or {raw: payload} when it throws
ParsePayload(b) == IF JsonValid(b) THEN JsonParse(b) ELSE [raw |-> b]

\* stripe.ts extractStripeEventId: body.id ?? null, null when parse throws
extractStripeEventId(b) ==
  IF JsonValid(b) /\ "id" \in DOMAIN JsonParse(b) THEN JsonParse(b).id ELSE Null

\* shopify.ts extractShopifyEventId: headers["x-shopify-webhook-id"] ?? null
extractShopifyEventId(b) == IF b = BodyOrder THEN "wh_1" ELSE Null

\* integrations.provider
Provider(i) == IF i = "i4" THEN "shopify" ELSE "stripe"

\* route.ts verifySignature: the providerEventId of a request
RequestEventId(provider, b) ==
  IF provider = "stripe" THEN extractStripeEventId(b)
  ELSE IF provider = "shopify" THEN extractShopifyEventId(b)
  ELSE Null

\* headersToRecord(request.headers): the names of the headers stored with the Event
RequestHeaders(provider) ==
  IF provider = "shopify" THEN {"x-shopify-hmac-sha256", "x-shopify-webhook-id"}
  ELSE {"stripe-signature"}

\* extractStripeCorrelationKey: the customer of payload.data.object, else its id
extractStripeCorrelationKey(payload) ==
  IF "data" \notin DOMAIN payload THEN Null
  ELSE IF "object" \notin DOMAIN payload.data THEN Null
  ELSE IF "customer" \in DOMAIN payload.data.object
    THEN << "stripe:customer", payload.data.object.customer >>
  ELSE IF "id" \in DOMAIN payload.data.object
    THEN << "stripe:object", payload.data.object.id >>
  ELSE Null

extractCorrelationKey(provider, payload) ==
  IF provider = "stripe" THEN extractStripeCorrelationKey(payload) ELSE Null

----------------------------------------------------------------------------
(* Destination and transport *)

DestModes == {"ok", "503"}

\* the other ways a POST fails: a TLS failure, a refused connection, a request
\* aborted at the timeout, a 500, a 404, and a 429 with each Retry-After header
ErrorModes == {"ssl", "refused", "timeout", "500", "404", "429", "429:7", "429:0", "429:soon"}

AllModes == DestModes \cup ErrorModes

\* lines 50-59: fetch throws, no status code, error = err.message
Thrown(keywords) ==
  [statusCode |-> NoStatus, success |-> FALSE, error |-> keywords, retryAfterHeader |-> Null]

\* lines 36-49: a response, success = response.ok
Responded(status, retryAfter) ==
  [statusCode |-> status, success |-> status = 200, error |-> {},
   retryAfterHeader |-> retryAfter]

\* deliverPayload: the DeliveryResult for what the destination answers.  error is
\* the set of keywords the lower-cased error message contains ({} when there is
\* no message or it holds none of them).
deliverPayload(mode) ==
  IF mode = "ok"
    THEN [statusCode |-> 200, success |-> TRUE, error |-> {}, retryAfterHeader |-> Null]
  ELSE IF mode = "ssl" THEN Thrown({"certificate"})
  ELSE IF mode = "refused" THEN Thrown({"econnrefused"})
  ELSE IF mode = "timeout" THEN Thrown({"abort"})
  ELSE IF mode = "500" THEN Responded(500, Null)
  ELSE IF mode = "404" THEN Responded(404, Null)
  ELSE IF mode = "429" THEN Responded(429, Null)
  ELSE IF mode = "429:7" THEN Responded(429, "7")
  ELSE IF mode = "429:0" THEN Responded(429, "0")
  ELSE IF mode = "429:soon" THEN Responded(429, "soon")
    ELSE [statusCode |-> 503, success |-> FALSE, error |-> {}, retryAfterHeader |-> Null]

\* What the destination answers to the next POST: it fails requests only while
\* it is in its failing mode and has failed fewer than MaxFailures of them.
Answer == IF dest.failed >= MaxFailures THEN "ok" ELSE dest.mode

DestAfterPost == [dest EXCEPT !.failed = IF Answer # "ok" THEN @ + 1 ELSE @]

\* Retry-After header values a destination sends, and parseInt(h, 10) of each
RetryAfterHeaders == {Null, "7", "0", "soon"}
ParseIntIsNaN(h) == h \notin {"7", "0"}
ParseInt(h) == IF h = "7" THEN 7 ELSE 0

\* lines 47-53: delay = 60000, replaced by seconds * 1000 when the header is a number
RetryAfterMs(h) ==
  IF h # Null /\ ~ParseIntIsNaN(h) THEN ParseInt(h) * 1000 ELSE 60000

\* retryDelayMs: null
NoDelay == 0 - 1

\* classifyDeliveryError that tests the status code before the error message
classifyDeliveryErrorStatusFirst(statusCode, error, retryAfterHeader) ==
  IF statusCode = 429 THEN
    [errorType |-> "rate_limit", shouldRetry |-> TRUE, retryDelayMs |-> RetryAfterMs(retryAfterHeader), shouldOpenCircuit |-> FALSE]
  ELSE IF statusCode = 503 THEN
    [errorType |-> "server_error", shouldRetry |-> TRUE, retryDelayMs |-> 30000, shouldOpenCircuit |-> FALSE]
  ELSE IF statusCode # NoStatus /\ statusCode >= 500 THEN
    [errorType |-> "server_error", shouldRetry |-> TRUE, retryDelayMs |-> NoDelay, shouldOpenCircuit |-> FALSE]
  ELSE IF error # {} /\ (error \cap {"abort", "timeout"}) # {} THEN
    [errorType |-> "timeout", shouldRetry |-> TRUE, retryDelayMs |-> NoDelay, shouldOpenCircuit |-> FALSE]
  ELSE IF error # {} /\ (error \cap {"ssl", "tls", "certificate"}) # {} THEN
    [errorType |-> "ssl", shouldRetry |-> FALSE, retryDelayMs |-> NoDelay, shouldOpenCircuit |-> TRUE]
  ELSE IF error # {} /\ (error \cap {"econnrefused", "connection refused", "enotfound"}) # {} THEN
    [errorType |-> "connection_refused", shouldRetry |-> FALSE, retryDelayMs |-> NoDelay, shouldOpenCircuit |-> TRUE]
  ELSE
    [errorType |-> "unknown", shouldRetry |-> TRUE, retryDelayMs |-> NoDelay, shouldOpenCircuit |-> FALSE]

classifyDeliveryError(statusCode, error, retryAfterHeader) ==
  IF error # {} /\ (error \cap {"abort", "timeout"}) # {} THEN
    [errorType |-> "timeout", shouldRetry |-> TRUE, retryDelayMs |-> NoDelay, shouldOpenCircuit |-> FALSE]
  ELSE IF error # {} /\ (error \cap {"ssl", "tls", "certificate"}) # {} THEN
    [errorType |-> "ssl", shouldRetry |-> FALSE, retryDelayMs |-> NoDelay, shouldOpenCircuit |-> TRUE]
  ELSE IF error # {} /\ (error \cap {"econnrefused", "connection refused", "enotfound"}) # {} THEN
    [errorType |-> "connection_refused", shouldRetry |-> FALSE, retryDelayMs |-> NoDelay, shouldOpenCircuit |-> TRUE]
  ELSE IF statusCode = 429 THEN
    [errorType |-> "rate_limit", shouldRetry |-> TRUE, retryDelayMs |-> RetryAfterMs(retryAfterHeader), shouldOpenCircuit |-> FALSE]
  ELSE IF statusCode = 503 THEN
    [errorType |-> "server_error", shouldRetry |-> TRUE, retryDelayMs |-> 30000, shouldOpenCircuit |-> FALSE]
  ELSE IF statusCode # NoStatus /\ statusCode >= 500 THEN
    [errorType |-> "server_error", shouldRetry |-> TRUE, retryDelayMs |-> NoDelay, shouldOpenCircuit |-> FALSE]
  ELSE
    [errorType |-> "unknown", shouldRetry |-> TRUE, retryDelayMs |-> NoDelay, shouldOpenCircuit |-> FALSE]

\* classification = !result.success ? classifyDeliveryError(...) : null
ErrorTypeOf(result) ==
  IF result.success THEN Null
  ELSE classifyDeliveryError(result.statusCode, result.error, result.retryAfterHeader).errorType

----------------------------------------------------------------------------
(* Circuit breaker (lib/mitigation/circuit-breaker.ts) *)

\* schema defaults of a new endpoints row
NewEndpoint ==
  [circuitState |-> "closed", successRate |-> 100,
   consecutiveFailures |-> 0, consecutiveSuccesses |-> 0, consecutiveHealthChecks |-> 0]

\* rows of the deliveries table for endpoint id, newest first, at most n
RECURSIVE LastRows(_, _, _, _)
LastRows(ds, id, k, n) ==
  IF k = 0 \/ n = 0 THEN << >>
  ELSE IF ds[k].endpointId = id
    THEN << ds[k] >> \o LastRows(ds, id, k - 1, n - 1)
    ELSE LastRows(ds, id, k - 1, n)

RecentDeliveries(ds, id) == LastRows(ds, id, Len(ds), SLIDING_WINDOW_SIZE)

CountDelivered(rows) == Cardinality({k \in 1..Len(rows) : rows[k].status = "delivered"})

\* lines 65-68: the window the breaker computes for one call
TotalInWindow(ds, id) == Len(RecentDeliveries(ds, id)) + 1
CurrentSuccesses(ds, id, success) ==
  CountDelivered(RecentDeliveries(ds, id)) + (IF success THEN 1 ELSE 0)
\* (currentSuccesses / totalInWindow) * 100, kept as its integer part: the
\* code only compares it with the integer threshold 50
SuccessRate(ds, id, success) ==
  (CurrentSuccesses(ds, id, success) * 100) \div TotalInWindow(ds, id)

\* lines 82-102: the state a recorded delivery leads to
DeliveryTransition(previousState, ncf, ncs, totalInWindow, successRate) ==
  IF previousState = "closed" THEN
    IF ncf >= CONSECUTIVE_FAILURES_THRESHOLD
       \/ (totalInWindow >= MIN_WINDOW_FOR_RATE /\ successRate < SUCCESS_RATE_OPEN_THRESHOLD)
    THEN "open" ELSE "closed"
  ELSE IF previousState = "half_open" THEN
    IF ncs >= SUCCESSES_FOR_CLOSED THEN "closed"
    ELSE IF ncf >= HALF_OPEN_FAILURE_THRESHOLD THEN "open"
    ELSE "half_open"
  ELSE previousState

\* recordDeliveryResult that leaves consecutiveHealthChecks alone on a state change
recordDeliveryResultKeepingHealthChecks(endpoint, ds, id, success) ==
  LET ncf == IF success THEN 0 ELSE endpoint.consecutiveFailures + 1
      ncs == IF success THEN endpoint.consecutiveSuccesses + 1 ELSE 0
      newState == DeliveryTransition(endpoint.circuitState, ncf, ncs,
                                     TotalInWindow(ds, id), SuccessRate(ds, id, success))
  IN [circuitState |-> newState,
      successRate |-> SuccessRate(ds, id, success),
      consecutiveFailures |-> ncf,
      consecutiveSuccesses |-> ncs,
      consecutiveHealthChecks |-> endpoint.consecutiveHealthChecks]

\* recordDeliveryResult: the endpoints row after the transaction
recordDeliveryResult(endpoint, ds, id, success) ==
  LET ncf == IF success THEN 0 ELSE endpoint.consecutiveFailures + 1
      ncs == IF success THEN endpoint.consecutiveSuccesses + 1 ELSE 0
      newState == DeliveryTransition(endpoint.circuitState, ncf, ncs,
                                     TotalInWindow(ds, id), SuccessRate(ds, id, success))
      stateChanged == newState # endpoint.circuitState
  IN [circuitState |-> newState,
      successRate |-> SuccessRate(ds, id, success),
      consecutiveFailures |-> ncf,
      consecutiveSuccesses |-> ncs,
      consecutiveHealthChecks |-> IF stateChanged THEN 0 ELSE endpoint.consecutiveHealthChecks]

\* lines 149-154: the state a recorded health check of an OPEN endpoint leads to
HealthCheckTransition(newConsecutiveHealthChecks) ==
  IF newConsecutiveHealthChecks >= HEALTH_CHECKS_FOR_HALF_OPEN THEN "half_open" ELSE "open"

\* recordHealthCheckResult that keeps the delivery counters on OPEN -> HALF_OPEN
recordHealthCheckResultKeepingCounters(endpoint, success) ==
  IF endpoint.circuitState # "open" THEN endpoint
  ELSE
    LET nhc == IF success THEN endpoint.consecutiveHealthChecks + 1 ELSE 0
    IN [endpoint EXCEPT !.consecutiveHealthChecks = nhc,
                        !.circuitState = HealthCheckTransition(nhc)]

\* recordHealthCheckResult that counts the probe whatever the state
recordHealthCheckResultInAnyState(endpoint, success) ==
  LET nhc == IF success THEN endpoint.consecutiveHealthChecks + 1 ELSE 0
      newState == IF endpoint.circuitState = "open" THEN HealthCheckTransition(nhc)
                  ELSE endpoint.circuitState
  IN IF newState # endpoint.circuitState
     THEN [endpoint EXCEPT !.consecutiveHealthChecks = nhc, !.circuitState = newState,
                           !.consecutiveFailures = 0, !.consecutiveSuccesses = 0]
     ELSE [endpoint EXCEPT !.consecutiveHealthChecks = nhc]

\* recordHealthCheckResult: the endpoints row after the transaction
recordHealthCheckResult(endpoint, success) ==
  IF endpoint.circuitState # "open" THEN endpoint
  ELSE
    LET nhc == IF success THEN endpoint.consecutiveHealthChecks + 1 ELSE 0
        newState == HealthCheckTransition(nhc)
    IN IF newState # "open"
       THEN [endpoint EXCEPT !.consecutiveHealthChecks = nhc, !.circuitState = newState,
                             !.consecutiveFailures = 0, !.consecutiveSuccesses = 0]
       ELSE [endpoint EXCEPT !.consecutiveHealthChecks = nhc]

\* getNextReplayPosition: COALESCE(MAX(position), 0) + 1 over the endpoint's items
MaxPosition(q, id) ==
  LET ps == {q[k].position : k \in {j \in 1..Len(q) : q[j].endpointId = id}}
  IN IF ps = {} THEN 0 ELSE CHOOSE p \in ps : \A o \in ps : o <= p

getNextReplayPosition(q, id) == MaxPosition(q, id) + 1

----------------------------------------------------------------------------
(* Initial state: the integration i1 with its endpoint, empty tables, no   *)
(* task waiting, every handler idle.                                       *)

IdleReq == [pc |-> "idle", integrationId |-> Null, body |-> Null, valid |-> FALSE,
            status |-> 0, eventId |-> 0]

IdleWorker == [pc |-> "idle", kind |-> Null, eventId |-> 0, circuitState |-> Null,
               position |-> 0, success |-> FALSE, statusCode |-> NoStatus,
               errorType |-> Null, retryDelayMs |-> 0, attemptNumber |-> 0, timeoutMs |-> 0,
               retryAfterHeader |-> Null, sleptSec |-> 0]

IdleProber == [pc |-> "idle", newState |-> Null]

IdleReplay == [pc |-> "idle", batch |-> << >>, idx |-> 0, success |-> FALSE,
               statusCode |-> NoStatus, errorType |-> Null, newState |-> Null,
               consecutiveSuccesses |-> 0, currentTierIndex |-> 0]

\* no reconciliation cycle is running
IdleRecon == [pc |-> "idle", integrationId |-> Null, listing |-> {}, local |-> {},
              hookwiseEventsFound |-> 0, gaps |-> {}, gapsDetected |-> 0,
              gapsResolved |-> 0, insertedId |-> 0, inserted |-> {}]

\* the calls of the breaker that SpecBreaker runs statement by statement
Calls == 1..3

IdleCall == [pc |-> "idle", kind |-> Null, success |-> FALSE, row |-> NewEndpoint,
             previousState |-> Null, seen |-> 0, wrote |-> FALSE]

\* no call of the classifier is observed
NoClassifyCall == [pc |-> "idle", statusCode |-> NoStatus, error |-> {},
                   retryAfterHeader |-> Null, result |-> Null]

\* the state of the management API, the reconciliation engine and the breaker
\* transactions after deployment
InitRest ==
  /\ created = {}
  /\ recon = IdleRecon
  /\ reconciliationRuns = << >>
  /\ tx = [c \in Calls |-> IdleCall]
  /\ clsCall = NoClassifyCall

InitHist == [probeStreak |-> 0, halfOpenSuccesses |-> 0, halfOpenFailures |-> 0,
             seen |-> {}, retried |-> {}, emitted |-> {}, manual |-> 0, cycles |-> 0,
             calls |-> 0, serial |-> NewEndpoint]

Init ==
  /\ req = IdleReq
  /\ events = << >>
  /\ sendInFlight = {}
  /\ rcvQ = [e \in 1..MaxEvents |-> 0]
  /\ retryQ = {}
  /\ replayStartedQ = 0
  /\ circuitOpened = 0
  /\ wk = [w \in Workers |-> IdleWorker]
  /\ deliveries = << >>
  /\ endpoints = [id \in EndpointIds |-> NewEndpoint]
  /\ replayQueue = << >>
  /\ prober = [p \in Probers |-> IdleProber]
  /\ replay = [r \in Runs |-> IdleReplay]
  /\ dest \in [mode : DestModes, flips : {0}, failed : {0}]
  /\ hist = InitHist
  /\ InitRest

----------------------------------------------------------------------------
(* Ingestion endpoint: POST /ingest/{integrationId} *)

\* IngestLookup that turns a request with an invalid signature away with 401
IngestLookupRejectingInvalid(i, b, v) ==
  /\ req.pc \in {"idle", "done"}
  /\ req' = IF ~IntegrationExists(i)
              THEN [IdleReq EXCEPT !.pc = "done", !.integrationId = i, !.body = b, !.status = 404]
            ELSE IF IntegrationStatus(i) # "active"
              THEN [IdleReq EXCEPT !.pc = "done", !.integrationId = i, !.body = b, !.status = 409]
            ELSE IF ~v
              THEN [IdleReq EXCEPT !.pc = "done", !.integrationId = i, !.body = b, !.status = 401]
            ELSE [IdleReq EXCEPT !.pc = "store", !.integrationId = i, !.body = b, !.valid = v]
  /\ UNCHANGED << events, sendInFlight, rcvQ, retryQ, replayStartedQ, circuitOpened, wk,
                  deliveries, endpoints, replayQueue, prober, replay, dest, hist, mgmt >>

\* lines 60-85: look the integration up, read the body, verify the signature
IngestLookup(i, b, v) ==
  /\ req.pc \in {"idle", "done"}
  /\ req' = IF ~IntegrationExists(i)
              THEN [IdleReq EXCEPT !.pc = "done", !.integrationId = i, !.body = b, !.status = 404]
            ELSE IF IntegrationStatus(i) # "active"
              THEN [IdleReq EXCEPT !.pc = "done", !.integrationId = i, !.body = b, !.status = 409]
            ELSE [IdleReq EXCEPT !.pc = "store", !.integrationId = i, !.body = b, !.valid = v]
  /\ UNCHANGED << events, sendInFlight, rcvQ, retryQ, replayStartedQ, circuitOpened, wk,
                  deliveries, endpoints, replayQueue, prober, replay, dest, hist, mgmt >>

\* the events row the request is stored as
NewEventRow(r) ==
  [integrationId |-> r.integrationId, payload |-> ParsePayload(r.body),
   headers |-> RequestHeaders(Provider(r.integrationId)),
   signatureValid |-> r.valid,
   providerEventId |-> RequestEventId(Provider(r.integrationId), r.body),
   source |-> "webhook"]

\* IngestStore with the insert left out (the request goes on to its response)
IngestStoreWithoutInsert ==
  /\ req.pc = "store"
  /\ sendInFlight' = sendInFlight \cup {Len(events) + 1}
  /\ req' = [req EXCEPT !.pc = "respond", !.eventId = Len(events) + 1]
  /\ UNCHANGED << events, rcvQ, retryQ, replayStartedQ, circuitOpened, wk, deliveries,
                  endpoints, replayQueue, prober, replay, dest, hist, mgmt >>

\* lines 87-106 with schema.ts line 69: the parsed payload is null and the column
\* events.payload is NOT NULL, so the awaited insert rejects; the route has no
\* catch and the request is answered 500
IngestInsertFails ==
  /\ req.pc = "store"
  /\ PayloadIsNull(req.body)
  /\ req' = [req EXCEPT !.pc = "done", !.status = 500]
  /\ UNCHANGED << events, sendInFlight, rcvQ, retryQ, replayStartedQ, circuitOpened, wk,
                  deliveries, endpoints, replayQueue, prober, replay, dest, hist, mgmt >>

\* lines 87-120: parse, insert the Event (awaited), start inngest.send (not awaited)
IngestStore ==
  /\ req.pc = "store"
  /\ ~PayloadIsNull(req.body)
  /\ events' = Append(events, NewEventRow(req))
  /\ sendInFlight' = sendInFlight \cup {Len(events) + 1}
  /\ req' = [req EXCEPT !.pc = "respond", !.eventId = Len(events) + 1]
  /\ UNCHANGED << rcvQ, retryQ, replayStartedQ, circuitOpened, wk, deliveries, endpoints,
                  replayQueue, prober, replay, dest, hist, mgmt >>

\* line 122: 200 {received: true}
IngestRespond ==
  /\ req.pc = "respond"
  /\ req' = [req EXCEPT !.pc = "done", !.status = 200]
  /\ UNCHANGED << events, sendInFlight, rcvQ, retryQ, replayStartedQ, circuitOpened, wk,
                  deliveries, endpoints, replayQueue, prober, replay, dest, hist, mgmt >>

\* the send promise resolves: the webhook/received task is in the queue
SendSettles(e) ==
  /\ e \in sendInFlight
  /\ sendInFlight' = sendInFlight \ {e}
  /\ rcvQ' = [rcvQ EXCEPT ![e] = @ + 1]
  /\ hist' = [hist EXCEPT !.emitted = @ \cup {e}]
  /\ UNCHANGED << req, events, retryQ, replayStartedQ, circuitOpened, wk, deliveries,
                  endpoints, replayQueue, prober, replay, dest, mgmt >>

\* lines 118-120: the send promise rejects: the error is logged, nothing else
SendFails(e) ==
  /\ e \in sendInFlight
  /\ sendInFlight' = sendInFlight \ {e}
  /\ UNCHANGED << req, events, rcvQ, retryQ, replayStartedQ, circuitOpened, wk, deliveries,
                  endpoints, replayQueue, prober, replay, dest, hist, mgmt >>

----------------------------------------------------------------------------
(* Manual replay API: POST /api/events/replay {eventIds}, by the owner of  *)
(* the integration                                                         *)

\* lines 34-82: fetch the Event, emit webhook/received for it (awaited), 200
ManualReplay(e) ==
  /\ e \in 1..Len(events)
  /\ hist.manual < MaxManual
  /\ rcvQ' = [rcvQ EXCEPT ![e] = @ + 1]
  /\ hist' = [hist EXCEPT !.emitted = @ \cup {e}, !.manual = @ + 1]
  /\ UNCHANGED << req, events, sendInFlight, retryQ, replayStartedQ, circuitOpened, wk,
                  deliveries, endpoints, replayQueue, prober, replay, dest, mgmt >>

----------------------------------------------------------------------------
(* Reconciliation engine (cron, every 5 minutes): one cycle for one         *)
(* integration.  A cycle is shorter than its 10 minute window, so the       *)
(* Events stored during the run are all inside the window.                  *)

\* what the provider has: Stripe events, Shopify orders
StripeEventIds == {"evt_1", "evt_2"}
ShopifyOrderIds == {"1001"}

\* part_020 line 177: `shopify:order:${order.id}`
ShopifyOrderEventId(o) == IF o = "1001" THEN "shopify:order:1001" ELSE "shopify:order"

\* lines 154-188: the key sets of the map fetchProviderEvents can return
Listings(i) ==
  IF Provider(i) = "stripe" THEN SUBSET StripeEventIds
  ELSE IF Provider(i) = "shopify"
    THEN {{ShopifyOrderEventId(o) : o \in S} : S \in SUBSET ShopifyOrderIds}
  ELSE {{}}

\* lines 166-181: the payload kept for a listed id ({id, type, created, data} of a
\* Stripe event, the order of a Shopify one)
ListedPayload(x) ==
  IF x = "evt_1" THEN JsonParse(BodyCharge)
  ELSE IF x = "evt_2" THEN JsonParse(BodyRefund)
  ELSE JsonParse(BodyOrder)

\* reconciliation.ts lines 18-38: the integrations the cron reconciles
Eligible(i) ==
  /\ i \in IntegrationIds
  /\ IntegrationStatus(i) = "active" /\ HasApiKey(i)
  /\ Provider(i) # "github"

\* part_020 lines 23-52: look the integration up, fetch the provider's events
ReconcileFetch(i, listing) ==
  /\ recon.pc = "idle"
  /\ hist.cycles < MaxCycles
  /\ Eligible(i)
  /\ listing \in Listings(i)
  /\ recon' = [IdleRecon EXCEPT !.pc = "select", !.integrationId = i, !.listing = listing]
  /\ UNCHANGED << req, events, sendInFlight, rcvQ, retryQ, replayStartedQ, circuitOpened,
                  wk, deliveries, endpoints, replayQueue, prober, replay, dest, hist,
                  created, reconciliationRuns, tx, clsCall >>

\* lines 53-64: fetchProviderEvents throws (the request to the provider fails):
\* the cycle returns zeros
ReconcileFetchThrows(i) ==
  /\ recon.pc = "idle"
  /\ hist.cycles < MaxCycles
  /\ Eligible(i)
  /\ hist' = [hist EXCEPT !.cycles = @ + 1]
  /\ UNCHANGED << req, events, sendInFlight, rcvQ, retryQ, replayStartedQ, circuitOpened,
                  wk, deliveries, endpoints, replayQueue, prober, replay, dest,
                  created, recon, reconciliationRuns, tx, clsCall >>

\* lines 66-101: the Events of the integration in the window, their non-null
\* provider event ids, and the listed ids that are not among them
ReconcileSelect ==
  /\ recon.pc = "select"
  /\ LET rows == {k \in 1..Len(events) : events[k].integrationId = recon.integrationId}
         ids == {events[k].providerEventId : k \in rows} \ {Null}
         gaps == recon.listing \ ids
     IN recon' = [recon EXCEPT !.pc = IF gaps = {} THEN "log" ELSE "insert",
                               !.local = ids,
                               !.hookwiseEventsFound = Cardinality(rows),
                               !.gaps = gaps,
                               !.gapsDetected = Cardinality(gaps)]
  /\ UNCHANGED << req, events, sendInFlight, rcvQ, retryQ, replayStartedQ, circuitOpened,
                  wk, deliveries, endpoints, replayQueue, prober, replay, dest, hist,
                  created, reconciliationRuns, tx, clsCall >>

\* lines 107-119: the events row inserted for a gap
ReconciledEventRow(i, x) ==
  [integrationId |-> i, payload |-> ListedPayload(x), headers |-> {},
   signatureValid |-> TRUE, providerEventId |-> x, source |-> "reconciliation"]

\* lines 106-119: insert the Event of the next gap
ReconcileInsert(x) ==
  /\ recon.pc = "insert"
  /\ x \in recon.gaps
  /\ events' = Append(events, ReconciledEventRow(recon.integrationId, x))
  /\ recon' = [recon EXCEPT !.pc = "send", !.insertedId = Len(events) + 1,
                            !.gaps = @ \ {x}]
  /\ UNCHANGED << req, sendInFlight, rcvQ, retryQ, replayStartedQ, circuitOpened,
                  wk, deliveries, endpoints, replayQueue, prober, replay, dest, hist,
                  created, reconciliationRuns, tx, clsCall >>

\* ReconcileSend that counts the gap as resolved without emitting the task
ReconcileSendWithoutEmit ==
  /\ recon.pc = "send"
  /\ recon' = [recon EXCEPT !.pc = IF recon.gaps = {} THEN "log" ELSE "insert",
                            !.gapsResolved = @ + 1,
                            !.inserted = @ \cup {recon.insertedId}]
  /\ UNCHANGED << req, events, sendInFlight, rcvQ, retryQ, replayStartedQ, circuitOpened,
                  wk, deliveries, endpoints, replayQueue, prober, replay, dest, hist,
                  created, reconciliationRuns, tx, clsCall >>

\* lines 121-131: emit webhook/received for the inserted Event (awaited),
\* gapsResolved++.  inserted keeps the ids of the Events the cycle has inserted
\* (an observation, never read by the code).
ReconcileSend ==
  /\ recon.pc = "send"
  /\ rcvQ' = [rcvQ EXCEPT ![recon.insertedId] = @ + 1]
  /\ hist' = [hist EXCEPT !.emitted = @ \cup {recon.insertedId}]
  /\ recon' = [recon EXCEPT !.pc = IF recon.gaps = {} THEN "log" ELSE "insert",
                            !.gapsResolved = @ + 1,
                            !.inserted = @ \cup {recon.insertedId}]
  /\ UNCHANGED << req, events, sendInFlight, retryQ, replayStartedQ, circuitOpened,
                  wk, deliveries, endpoints, replayQueue, prober, replay, dest,
                  created, reconciliationRuns, tx, clsCall >>

\* lines 134-149: the reconciliation_runs row of the cycle
RunRow(r) ==
  [integrationId |-> r.integrationId,
   providerEventsFound |-> Cardinality(r.listing),
   hookwiseEventsFound |-> r.hookwiseEventsFound,
   gapsDetected |-> r.gapsDetected,
   gapsResolved |-> r.gapsResolved]

\* lines 134-151: insert the ReconciliationRun row, return
ReconcileLog ==
  /\ recon.pc = "log"
  /\ reconciliationRuns' = Append(reconciliationRuns, RunRow(recon))
  /\ recon' = IdleRecon
  /\ hist' = [hist EXCEPT !.cycles = @ + 1]
  /\ UNCHANGED << req, events, sendInFlight, rcvQ, retryQ, replayStartedQ, circuitOpened,
                  wk, deliveries, endpoints, replayQueue, prober, replay, dest,
                  created, tx, clsCall >>

----------------------------------------------------------------------------
(* What the run has shown so far (never read by the handlers) *)

\* the state changes seen so far, and <<"open", "open">> for a delivery recorded
\* while the endpoint was OPEN
SeenAfter(seen, prev, new) ==
  IF prev # new \/ prev = "open" THEN seen \cup {<< prev, new >>} ELSE seen

\* after one recordDeliveryResult call that found the endpoint in state prev:
\* probeStreak restarts when the endpoint enters OPEN; halfOpenSuccesses and
\* halfOpenFailures count the consecutive outcomes recorded in HALF_OPEN
HistAfterDelivery(h, prev, new, success) ==
  [h EXCEPT
     !.probeStreak = IF new = "open" /\ prev # "open" THEN 0 ELSE @,
     !.halfOpenSuccesses = IF prev # "half_open" THEN @ ELSE IF success THEN @ + 1 ELSE 0,
     !.halfOpenFailures = IF prev # "half_open" THEN @ ELSE IF success THEN 0 ELSE @ + 1,
     !.seen = SeenAfter(@, prev, new)]

\* after one recordHealthCheckResult call that found the endpoint in state prev:
\* probeStreak counts the consecutive successful probes of this OPEN period, and
\* the HALF_OPEN counts restart when the endpoint enters HALF_OPEN
HistAfterHealthCheck(h, prev, new, success) ==
  IF prev # "open" THEN h
  ELSE [h EXCEPT
     !.probeStreak = IF success THEN @ + 1 ELSE 0,
     !.halfOpenSuccesses = IF new = "half_open" THEN 0 ELSE @,
     !.halfOpenFailures = IF new = "half_open" THEN 0 ELSE @,
     !.seen = IF new # prev THEN @ \cup {<< prev, new >>} ELSE @]

----------------------------------------------------------------------------
(* Delivery worker (webhook/received) and retry handler (webhook/retry)    *)

\* the deliveries row a handler inserts for an attempt
DeliveryRow(eventId, endpointId, success, statusCode, errorType, attemptNumber) ==
  [eventId |-> eventId, endpointId |-> endpointId,
   status |-> IF success THEN "delivered" ELSE "failed",
   statusCode |-> statusCode, errorType |-> errorType, attemptNumber |-> attemptNumber]

\* deliver-webhook.ts lines 86-105: where the handler goes after reading the state
AfterFetchContext(circuitState) ==
  IF circuitState = "open" THEN "enqueue_position"
  ELSE IF circuitState = "half_open" THEN "throttle"
  ELSE "deliver"

\* lines 29-105: take a webhook/received task, fetch-context, branch on circuitState
StartDeliver(w, e) ==
  /\ wk[w].pc = "idle"
  /\ rcvQ[e] > 0
  /\ rcvQ' = [rcvQ EXCEPT ![e] = @ - 1]
  /\ LET id == getEndpointForIntegration(events[e].integrationId)
         cs == IF id = Null THEN Null ELSE endpoints[id].circuitState
     IN wk' = [wk EXCEPT ![w] = [IdleWorker EXCEPT
                                   !.pc = IF id = Null THEN "direct_deliver"
                                          ELSE AfterFetchContext(cs),
                                   !.kind = "deliver", !.eventId = e, !.circuitState = cs,
                                   !.attemptNumber = 1, !.timeoutMs = BASE_TIMEOUT_MS]]
  /\ UNCHANGED << req, events, sendInFlight, retryQ, replayStartedQ, circuitOpened,
                  deliveries, endpoints, replayQueue, prober, replay, dest, hist, mgmt >>

\* lines 58-66: no endpoints row (direct-deliver): POST to the destination
DirectDeliver(w) ==
  /\ wk[w].pc = "direct_deliver"
  /\ LET result == deliverPayload(Answer)
     IN wk' = [wk EXCEPT ![w].pc = "direct_record",
                         ![w].success = result.success,
                         ![w].statusCode = result.statusCode,
                         ![w].errorType = ErrorTypeOf(result),
                         ![w].retryAfterHeader = result.retryAfterHeader]
  /\ dest' = DestAfterPost
  /\ UNCHANGED << req, events, sendInFlight, rcvQ, retryQ, replayStartedQ, circuitOpened,
                  deliveries, endpoints, replayQueue, prober, replay, hist, mgmt >>

\* lines 68-83: record-direct-delivery inserts the Delivery row (no endpointId,
\* attempt 1) and the handler returns: no breaker update, no retry
RecordDirectDelivery(w) ==
  /\ wk[w].pc = "direct_record"
  /\ deliveries' = Append(deliveries,
       DeliveryRow(wk[w].eventId, Null, wk[w].success, wk[w].statusCode,
                   wk[w].errorType, 1))
  /\ wk' = [wk EXCEPT ![w] = IdleWorker]
  /\ UNCHANGED << req, events, sendInFlight, rcvQ, retryQ, replayStartedQ, circuitOpened,
                  endpoints, replayQueue, prober, replay, dest, hist, mgmt >>

\* line 91: position = getNextReplayPosition(endpoint.id)
EnqueuePosition(w) ==
  /\ wk[w].pc = "enqueue_position"
  /\ LET id == getEndpointForIntegration(events[wk[w].eventId].integrationId)
     IN wk' = [wk EXCEPT ![w].pc = "enqueue_insert",
                         ![w].position = getNextReplayPosition(replayQueue, id)]
  /\ UNCHANGED << req, events, sendInFlight, rcvQ, retryQ, replayStartedQ, circuitOpened,
                  deliveries, endpoints, replayQueue, prober, replay, dest, hist, mgmt >>

\* circuit-breaker.ts lines 181-196: the replay_queue row inserted
NewReplayItem(endpointId, eventId, correlationKey, position) ==
  [endpointId |-> endpointId, eventId |-> eventId, position |-> position,
   correlationKey |-> correlationKey, status |-> "pending", attempts |-> 0, deliveredAt |-> 0]

\* line 96: enqueueForReplay(endpoint.id, eventId, correlationKey, position); return
EnqueueInsert(w) ==
  /\ wk[w].pc = "enqueue_insert"
  /\ LET id == getEndpointForIntegration(events[wk[w].eventId].integrationId)
         correlationKey == extractCorrelationKey(Provider(events[wk[w].eventId].integrationId),
                                                 events[wk[w].eventId].payload)
     IN replayQueue' = Append(replayQueue,
          NewReplayItem(id, wk[w].eventId, correlationKey, wk[w].position))
  /\ wk' = [wk EXCEPT ![w] = IdleWorker]
  /\ UNCHANGED << req, events, sendInFlight, rcvQ, retryQ, replayStartedQ, circuitOpened,
                  deliveries, endpoints, prober, replay, dest, hist, mgmt >>

\* line 104: step.sleep("half-open-throttle", "1s")
Throttle(w) ==
  /\ wk[w].pc = "throttle"
  /\ wk' = [wk EXCEPT ![w].pc = "deliver"]
  /\ UNCHANGED << req, events, sendInFlight, rcvQ, retryQ, replayStartedQ, circuitOpened,
                  deliveries, endpoints, replayQueue, prober, replay, dest, hist, mgmt >>

\* lines 108-119 and 287-298: POST to the destination, classify the outcome
Deliver(w) ==
  /\ wk[w].pc = "deliver"
  /\ LET result == deliverPayload(Answer)
         cls == classifyDeliveryError(result.statusCode, result.error, result.retryAfterHeader)
     IN wk' = [wk EXCEPT ![w].pc = "record",
                         ![w].success = result.success,
                         ![w].statusCode = result.statusCode,
                         ![w].errorType = ErrorTypeOf(result),
                         ![w].retryDelayMs = IF result.success THEN 0 ELSE cls.retryDelayMs,
                         ![w].retryAfterHeader = result.retryAfterHeader]
  /\ dest' = DestAfterPost
  /\ UNCHANGED << req, events, sendInFlight, rcvQ, retryQ, replayStartedQ, circuitOpened,
                  deliveries, endpoints, replayQueue, prober, replay, hist, mgmt >>

\* lines 122-134 and 300-312: insert the Delivery row of this attempt
RecordDelivery(w) ==
  /\ wk[w].pc = "record"
  /\ LET id == getEndpointForIntegration(events[wk[w].eventId].integrationId)
     IN deliveries' = Append(deliveries,
          DeliveryRow(wk[w].eventId, id, wk[w].success, wk[w].statusCode,
                      wk[w].errorType, wk[w].attemptNumber))
  /\ wk' = [wk EXCEPT ![w].pc = "breaker"]
  /\ UNCHANGED << req, events, sendInFlight, rcvQ, retryQ, replayStartedQ, circuitOpened,
                  endpoints, replayQueue, prober, replay, dest, hist, mgmt >>

\* lines 151-254: what the delivery worker does after the breaker update
AfterBreaker(success, errorType, statusCode, retryDelayMs) ==
  IF success THEN "emit_flow"
  ELSE IF errorType = "ssl" THEN "idle"
  ELSE IF errorType = "connection_refused" THEN "idle"
  ELSE IF errorType = "server_error" /\ statusCode # 503 THEN "emit_retry"
  ELSE IF statusCode = 503 THEN "backoff"
  ELSE IF errorType = "rate_limit" /\ retryDelayMs \notin {NoDelay, 0} THEN "backoff"
  ELSE IF errorType = "timeout" THEN "emit_retry"
  ELSE "idle"

\* UpdateCircuitBreaker in which the retry handler goes on to the retry logic of
\* the delivery worker
UpdateCircuitBreakerWithFanOut(w) ==
  /\ wk[w].pc = "breaker"
  /\ LET id == getEndpointForIntegration(events[wk[w].eventId].integrationId)
         prev == endpoints[id].circuitState
         row == recordDeliveryResult(endpoints[id], deliveries, id, wk[w].success)
         after == AfterBreaker(wk[w].success, wk[w].errorType, wk[w].statusCode,
                               wk[w].retryDelayMs)
     IN /\ endpoints' = [endpoints EXCEPT ![id] = row]
        /\ hist' = HistAfterDelivery(hist, prev, row.circuitState, wk[w].success)
        /\ wk' = IF row.circuitState = "open" /\ prev # "open"
                   THEN [wk EXCEPT ![w].pc = "emit_opened"]
                 ELSE IF after = "idle"
                   THEN [wk EXCEPT ![w] = IdleWorker]
                 ELSE [wk EXCEPT ![w].pc = after]
  /\ UNCHANGED << req, events, sendInFlight, rcvQ, retryQ, replayStartedQ, circuitOpened,
                  deliveries, replayQueue, prober, replay, dest, mgmt >>

\* lines 137-149 and 314-318: recordDeliveryResult under the row lock
UpdateCircuitBreaker(w) ==
  /\ wk[w].pc = "breaker"
  /\ LET id == getEndpointForIntegration(events[wk[w].eventId].integrationId)
         prev == endpoints[id].circuitState
         row == recordDeliveryResult(endpoints[id], deliveries, id, wk[w].success)
         after == AfterBreaker(wk[w].success, wk[w].errorType, wk[w].statusCode,
                               wk[w].retryDelayMs)
     IN /\ endpoints' = [endpoints EXCEPT ![id] = row]
        /\ hist' = HistAfterDelivery(hist, prev, row.circuitState, wk[w].success)
        /\ wk' = IF wk[w].kind = "retry"
                   THEN [wk EXCEPT ![w] = IdleWorker]
                 ELSE IF row.circuitState = "open" /\ prev # "open"
                   THEN [wk EXCEPT ![w].pc = "emit_opened"]
                 ELSE IF after = "idle"
                   THEN [wk EXCEPT ![w] = IdleWorker]
                 ELSE [wk EXCEPT ![w].pc = after]
  /\ UNCHANGED << req, events, sendInFlight, rcvQ, retryQ, replayStartedQ, circuitOpened,
                  deliveries, replayQueue, prober, replay, dest, mgmt >>

\* lines 142-149: emit endpoint/circuit-opened
EmitCircuitOpened(w) ==
  /\ wk[w].pc = "emit_opened"
  /\ circuitOpened' = circuitOpened + 1
  /\ LET after == AfterBreaker(wk[w].success, wk[w].errorType, wk[w].statusCode,
                               wk[w].retryDelayMs)
     IN wk' = IF after = "idle" THEN [wk EXCEPT ![w] = IdleWorker]
              ELSE [wk EXCEPT ![w].pc = after]
  /\ UNCHANGED << req, events, sendInFlight, rcvQ, retryQ, replayStartedQ, deliveries,
                  endpoints, replayQueue, prober, replay, dest, hist, mgmt >>

\* line 200: Math.ceil(retryDelayMs / 1000)
Ceil1000(ms) == (ms + 999) \div 1000

\* lines 182 and 201: step.sleep("backoff-503", "30s") / step.sleep("backoff-429", ...)
Backoff(w) ==
  /\ wk[w].pc = "backoff"
  /\ wk' = [wk EXCEPT ![w].pc = "emit_retry",
                      ![w].sleptSec = IF wk[w].statusCode = 503 THEN 30
                                      ELSE Ceil1000(wk[w].retryDelayMs)]
  /\ UNCHANGED << req, events, sendInFlight, rcvQ, retryQ, replayStartedQ, circuitOpened,
                  deliveries, endpoints, replayQueue, prober, replay, dest, hist, mgmt >>

\* lines 165-231: emit webhook/retry at attempt 2 (timeout doubled after a timeout)
EmitRetry(w) ==
  /\ wk[w].pc = "emit_retry"
  /\ retryQ' = retryQ \cup
       {[eventId |-> wk[w].eventId, attemptNumber |-> 2,
         timeoutMs |-> IF wk[w].errorType = "timeout" THEN BASE_TIMEOUT_MS * 2
                       ELSE BASE_TIMEOUT_MS]}
  /\ wk' = [wk EXCEPT ![w] = IdleWorker]
  /\ hist' = [hist EXCEPT !.retried = @ \cup {wk[w].eventId}]
  /\ UNCHANGED << req, events, sendInFlight, rcvQ, replayStartedQ, circuitOpened,
                  deliveries, endpoints, replayQueue, prober, replay, dest, mgmt >>

\* lines 236-254: emit flow/step-completed (consumed outside the core) and return
EmitFlowStep(w) ==
  /\ wk[w].pc = "emit_flow"
  /\ wk' = [wk EXCEPT ![w] = IdleWorker]
  /\ UNCHANGED << req, events, sendInFlight, rcvQ, retryQ, replayStartedQ, circuitOpened,
                  deliveries, endpoints, replayQueue, prober, replay, dest, hist, mgmt >>

\* lines 266-285: take a webhook/retry task, fetch-context; return when the circuit is open
StartRetry(w, t) ==
  /\ wk[w].pc = "idle"
  /\ t \in retryQ
  /\ retryQ' = retryQ \ {t}
  /\ LET id == getEndpointForIntegration(events[t.eventId].integrationId)
         cs == endpoints[id].circuitState
     IN wk' = IF cs = "open" THEN wk
              ELSE [wk EXCEPT ![w] = [IdleWorker EXCEPT !.pc = "deliver", !.kind = "retry",
                                        !.eventId = t.eventId, !.circuitState = cs,
                                        !.attemptNumber = t.attemptNumber,
                                        !.timeoutMs = t.timeoutMs]]
  /\ UNCHANGED << req, events, sendInFlight, rcvQ, replayStartedQ, circuitOpened,
                  deliveries, endpoints, replayQueue, prober, replay, dest, hist, mgmt >>

----------------------------------------------------------------------------
(* Health prober (cron, every minute) *)

\* health-check.ts lines 16-25: fetch the OPEN endpoints; a run that finds none returns
ProberFetch(p) ==
  /\ prober[p].pc = "idle"
  /\ \E id \in EndpointIds : endpoints[id].circuitState = "open"
  /\ prober' = [prober EXCEPT ![p].pc = "check"]
  /\ UNCHANGED << req, events, sendInFlight, rcvQ, retryQ, replayStartedQ, circuitOpened,
                  wk, deliveries, endpoints, replayQueue, replay, dest, hist, mgmt >>

\* lines 30-60: HEAD (GET on a non-2xx answer), then recordHealthCheckResult.  A
\* healthy destination answers the probe with a 2xx; one that fails POSTs may or
\* may not.
ProberCheck(p, id, ok) ==
  /\ prober[p].pc = "check"
  /\ Answer = "ok" => ok
  /\ LET success == ok
         prev == endpoints[id].circuitState
         row == recordHealthCheckResult(endpoints[id], success)
     IN /\ endpoints' = [endpoints EXCEPT ![id] = row]
        /\ hist' = HistAfterHealthCheck(hist, prev, row.circuitState, success)
        /\ prober' = [prober EXCEPT ![p] =
                        IF row.circuitState = "half_open"
                          THEN [pc |-> "emit", newState |-> row.circuitState]
                          ELSE IdleProber]
  /\ UNCHANGED << req, events, sendInFlight, rcvQ, retryQ, replayStartedQ, circuitOpened,
                  wk, deliveries, replayQueue, replay, dest, mgmt >>

\* lines 65-75: emit endpoint/replay-started
ProberEmit(p) ==
  /\ prober[p].pc = "emit"
  /\ replayStartedQ' = replayStartedQ + 1
  /\ prober' = [prober EXCEPT ![p] = IdleProber]
  /\ UNCHANGED << req, events, sendInFlight, rcvQ, retryQ, circuitOpened, wk, deliveries,
                  endpoints, replayQueue, replay, dest, hist, mgmt >>

----------------------------------------------------------------------------
(* Ordered replay engine (endpoint/replay-started) *)

ReplayEndpoint == "ep1"

PendingIds(q, id) ==
  {k \in 1..Len(q) : q[k].endpointId = id /\ q[k].status = "pending"}

\* the orders in which ORDER BY position ASC can return the ids S (ties in any order)
RECURSIVE PositionOrders(_, _)
PositionOrders(q, S) ==
  IF S = {} THEN {<< >>}
  ELSE LET firsts == {k \in S : \A o \in S : q[k].position <= q[o].position}
       IN UNION {{<< k >> \o rest : rest \in PositionOrders(q, S \ {k})} : k \in firsts}

Prefix(sq, n) == IF Len(sq) <= n THEN sq ELSE SubSeq(sq, 1, n)

\* replay-engine.ts lines 42-54: the batches the query can return, each entry the
\* item as read (id and attempts)
Batches(q, id) ==
  {[k \in 1..Len(Prefix(o, BATCH_SIZE)) |-> [id |-> o[k], attempts |-> q[o[k]].attempts]]
     : o \in PositionOrders(q, PendingIds(q, id))}

\* dedup-check without the test of line 80 (a null provider_event_id matches the
\* delivered Events that have none)
AlreadyDeliveredIgnoringNull(eventId) ==
  \E k \in 1..Len(deliveries) :
    /\ deliveries[k].status = "delivered"
    /\ events[deliveries[k].eventId].providerEventId = events[eventId].providerEventId

\* lines 73-95: a Delivery with status delivered exists for an Event with the same
\* non-null provider_event_id
AlreadyDelivered(eventId) ==
  /\ events[eventId].providerEventId # Null
  /\ \E k \in 1..Len(deliveries) :
       /\ deliveries[k].status = "delivered"
       /\ events[deliveries[k].eventId].providerEventId = events[eventId].providerEventId

\* the run moves on to the next item of the batch, or back to the top of the while loop
NextItem(r) ==
  IF r.idx < Len(r.batch) THEN [r EXCEPT !.pc = "pre_check", !.idx = r.idx + 1]
  ELSE [r EXCEPT !.pc = "check_state", !.batch = << >>, !.idx = 0]

\* the item of its batch run r is at
Item(r) == replay[r].batch[replay[r].idx]

\* new Date() of an update of the replay_queue: later than every delivered_at stored
Now(q) ==
  LET ts == {q[k].deliveredAt : k \in 1..Len(q)}
  IN 1 + (IF ts = {} THEN 0 ELSE CHOOSE t \in ts : \A o \in ts : o <= t)

\* lines 22-29: take an endpoint/replay-started task
ReplayStart(r) ==
  /\ replay[r].pc = "idle"
  /\ replayStartedQ > 0
  /\ replayStartedQ' = replayStartedQ - 1
  /\ replay' = [replay EXCEPT ![r] = [IdleReplay EXCEPT !.pc = "check_state"]]
  /\ UNCHANGED << req, events, sendInFlight, rcvQ, retryQ, circuitOpened, wk, deliveries,
                  endpoints, replayQueue, prober, dest, hist, mgmt >>

\* lines 33-39: stop when the endpoint is OPEN
ReplayCheckState(r) ==
  /\ replay[r].pc = "check_state"
  /\ replay' = [replay EXCEPT ![r] =
                  IF endpoints[ReplayEndpoint].circuitState = "open" THEN IdleReplay
                  ELSE [replay[r] EXCEPT !.pc = "fetch_batch"]]
  /\ UNCHANGED << req, events, sendInFlight, rcvQ, retryQ, replayStartedQ, circuitOpened,
                  wk, deliveries, endpoints, replayQueue, prober, dest, hist, mgmt >>

\* lines 42-59: fetch up to BATCH_SIZE pending items by position; stop when none
ReplayFetchBatch(r) ==
  /\ replay[r].pc = "fetch_batch"
  /\ \E b \in Batches(replayQueue, ReplayEndpoint) :
       replay' = [replay EXCEPT ![r] =
                    IF Len(b) = 0 THEN IdleReplay
                    ELSE [replay[r] EXCEPT !.pc = "pre_check", !.batch = b, !.idx = 1]]
  /\ UNCHANGED << req, events, sendInFlight, rcvQ, retryQ, replayStartedQ, circuitOpened,
                  wk, deliveries, endpoints, replayQueue, prober, dest, hist, mgmt >>

\* lines 63-70: re-check the circuit state before each item
ReplayPreCheck(r) ==
  /\ replay[r].pc = "pre_check"
  /\ replay' = [replay EXCEPT ![r] =
                  IF endpoints[ReplayEndpoint].circuitState = "open" THEN IdleReplay
                  ELSE [replay[r] EXCEPT !.pc = "dedup_check"]]
  /\ UNCHANGED << req, events, sendInFlight, rcvQ, retryQ, replayStartedQ, circuitOpened,
                  wk, deliveries, endpoints, replayQueue, prober, dest, hist, mgmt >>

\* lines 73-118: dedup-check, then the skip budget on the attempts read with the batch
ReplayDedupCheck(r) ==
  /\ replay[r].pc = "dedup_check"
  /\ replay' = [replay EXCEPT ![r].pc =
       IF AlreadyDelivered(replayQueue[Item(r).id].eventId) THEN "skip_dedup"
       ELSE IF Item(r).attempts >= MAX_SKIP_ATTEMPTS THEN "skip_failed"
       ELSE "mark_delivering"]
  /\ UNCHANGED << req, events, sendInFlight, rcvQ, retryQ, replayStartedQ, circuitOpened,
                  wk, deliveries, endpoints, replayQueue, prober, dest, hist, mgmt >>

\* lines 98-105: mark the item delivered without sending
ReplaySkipDedup(r) ==
  /\ replay[r].pc = "skip_dedup"
  /\ replayQueue' = [replayQueue EXCEPT ![Item(r).id].status = "delivered",
                                        ![Item(r).id].deliveredAt = Now(replayQueue)]
  /\ replay' = [replay EXCEPT ![r] = NextItem(replay[r])]
  /\ UNCHANGED << req, events, sendInFlight, rcvQ, retryQ, replayStartedQ, circuitOpened,
                  wk, deliveries, endpoints, prober, dest, hist, mgmt >>

\* ReplaySkipFailed after which the run stops instead of continuing
ReplaySkipFailedStoppingRun(r) ==
  /\ replay[r].pc = "skip_failed"
  /\ replayQueue' = [replayQueue EXCEPT ![Item(r).id].status = "skipped"]
  /\ replay' = [replay EXCEPT ![r] = IdleReplay]
  /\ UNCHANGED << req, events, sendInFlight, rcvQ, retryQ, replayStartedQ, circuitOpened,
                  wk, deliveries, endpoints, prober, dest, hist, mgmt >>

\* ReplaySkipFailed that returns the item to the queue
ReplaySkipFailedLeavingPending(r) ==
  /\ replay[r].pc = "skip_failed"
  /\ replayQueue' = [replayQueue EXCEPT ![Item(r).id].status = "pending"]
  /\ replay' = [replay EXCEPT ![r] = NextItem(replay[r])]
  /\ UNCHANGED << req, events, sendInFlight, rcvQ, retryQ, replayStartedQ, circuitOpened,
                  wk, deliveries, endpoints, prober, dest, hist, mgmt >>

\* lines 110-117: mark the item skipped
ReplaySkipFailed(r) ==
  /\ replay[r].pc = "skip_failed"
  /\ replayQueue' = [replayQueue EXCEPT ![Item(r).id].status = "skipped"]
  /\ replay' = [replay EXCEPT ![r] = NextItem(replay[r])]
  /\ UNCHANGED << req, events, sendInFlight, rcvQ, retryQ, replayStartedQ, circuitOpened,
                  wk, deliveries, endpoints, prober, dest, hist, mgmt >>

\* lines 121-154: mark delivering with attempts = item.attempts + 1, fetch the event
\* (events are never deleted), sleep for the rate tier
ReplayMarkDelivering(r) ==
  /\ replay[r].pc = "mark_delivering"
  /\ replayQueue' = [replayQueue EXCEPT ![Item(r).id].status = "delivering",
                                        ![Item(r).id].attempts = Item(r).attempts + 1]
  /\ replay' = [replay EXCEPT ![r].pc = "deliver"]
  /\ UNCHANGED << req, events, sendInFlight, rcvQ, retryQ, replayStartedQ, circuitOpened,
                  wk, deliveries, endpoints, prober, dest, hist, mgmt >>

\* lines 157-173: POST to the destination, classify the outcome
ReplayDeliver(r) ==
  /\ replay[r].pc = "deliver"
  /\ LET result == deliverPayload(Answer)
     IN replay' = [replay EXCEPT ![r].pc = "record", ![r].success = result.success,
                                 ![r].statusCode = result.statusCode,
                                 ![r].errorType = ErrorTypeOf(result)]
  /\ dest' = DestAfterPost
  /\ UNCHANGED << req, events, sendInFlight, rcvQ, retryQ, replayStartedQ, circuitOpened,
                  wk, deliveries, endpoints, replayQueue, prober, hist, mgmt >>

\* lines 176-188: insert the Delivery row, attemptNumber = item.attempts + 1
ReplayRecord(r) ==
  /\ replay[r].pc = "record"
  /\ deliveries' = Append(deliveries,
       DeliveryRow(replayQueue[Item(r).id].eventId, ReplayEndpoint, replay[r].success,
                   replay[r].statusCode, replay[r].errorType, Item(r).attempts + 1))
  /\ replay' = [replay EXCEPT ![r].pc = "circuit_update"]
  /\ UNCHANGED << req, events, sendInFlight, rcvQ, retryQ, replayStartedQ, circuitOpened,
                  wk, endpoints, replayQueue, prober, dest, hist, mgmt >>

\* lines 191-193: recordDeliveryResult under the row lock
ReplayCircuitUpdate(r) ==
  /\ replay[r].pc = "circuit_update"
  /\ LET prev == endpoints[ReplayEndpoint].circuitState
         row == recordDeliveryResult(endpoints[ReplayEndpoint], deliveries,
                                     ReplayEndpoint, replay[r].success)
     IN /\ endpoints' = [endpoints EXCEPT ![ReplayEndpoint] = row]
        /\ hist' = HistAfterDelivery(hist, prev, row.circuitState, replay[r].success)
        /\ replay' = [replay EXCEPT ![r].pc = "mark", ![r].newState = row.circuitState]
  /\ UNCHANGED << req, events, sendInFlight, rcvQ, retryQ, replayStartedQ, circuitOpened,
                  wk, deliveries, replayQueue, prober, dest, mgmt >>

\* line 12: events per second of each tier
RATE_TIERS == << 1, 2, 5, 10 >>

\* lines 150-151: the rate the run sends at
CurrentRate(r) ==
  IF r.currentTierIndex + 1 \in DOMAIN RATE_TIERS THEN RATE_TIERS[r.currentTierIndex + 1]
  ELSE RATE_TIERS[Len(RATE_TIERS)]

\* TierAfterSuccess without the test on the last tier
TierAfterSuccessUncapped(r) ==
  IF r.consecutiveSuccesses + 1 >= SUCCESSES_PER_TIER
    THEN [r EXCEPT !.currentTierIndex = @ + 1, !.consecutiveSuccesses = 0]
    ELSE [r EXCEPT !.consecutiveSuccesses = @ + 1]

\* lines 206-212: step the rate tier up after SUCCESSES_PER_TIER consecutive successes
TierAfterSuccess(r) ==
  IF r.consecutiveSuccesses + 1 >= SUCCESSES_PER_TIER /\ r.currentTierIndex < 3
    THEN [r EXCEPT !.currentTierIndex = @ + 1, !.consecutiveSuccesses = 0]
    ELSE [r EXCEPT !.consecutiveSuccesses = @ + 1]

\* lines 195-231: mark delivered, or back to pending (and stop when the circuit reopened)
ReplayMark(r) ==
  /\ replay[r].pc = "mark"
  /\ IF replay[r].success
       THEN /\ replayQueue' = [replayQueue EXCEPT ![Item(r).id].status = "delivered",
                                                  ![Item(r).id].deliveredAt = Now(replayQueue)]
            /\ replay' = [replay EXCEPT ![r] = NextItem(TierAfterSuccess(replay[r]))]
       ELSE /\ replayQueue' = [replayQueue EXCEPT ![Item(r).id].status = "pending"]
            /\ replay' = [replay EXCEPT ![r] =
                            IF replay[r].newState = "open" THEN IdleReplay
                            ELSE NextItem([replay[r] EXCEPT !.consecutiveSuccesses = 0,
                                                            !.currentTierIndex = 0])]
  /\ UNCHANGED << req, events, sendInFlight, rcvQ, retryQ, replayStartedQ, circuitOpened,
                  wk, deliveries, endpoints, prober, dest, hist, mgmt >>

----------------------------------------------------------------------------
(* The destination changes what it answers *)

DestChanges(m) ==
  /\ dest.flips < MaxFlips
  /\ m # dest.mode
  /\ dest' = [dest EXCEPT !.mode = m, !.flips = @ + 1]
  /\ UNCHANGED << req, events, sendInFlight, rcvQ, retryQ, replayStartedQ, circuitOpened,
                  wk, deliveries, endpoints, replayQueue, prober, replay, hist, mgmt >>

----------------------------------------------------------------------------
(* Scheduling.  Handler instances are interchangeable, and so are the      *)
(* waiting webhook/received tasks of events that have no Delivery yet: a   *)
(* task starts in the first idle instance, the oldest waiting event first. *)

IngestBusy == req.pc \in {"store", "respond"} \/ sendInFlight # {}

LocalPcs == {"throttle", "emit_opened", "backoff", "emit_retry", "emit_flow"}

LocalBusy == \E w \in Workers : wk[w].pc \in LocalPcs

HandlerBusy ==
  \/ \E w \in Workers : wk[w].pc # "idle"
  \/ \E p \in Probers : prober[p].pc # "idle"
  \/ \E r \in Runs : replay[r].pc # "idle"

TaskWaiting == (\E e \in 1..Len(events) : rcvQ[e] > 0) \/ retryQ # {}

FirstIdle(w) == wk[w].pc = "idle" /\ (w = "w2" => wk["w1"].pc # "idle")

FirstIdleProber(p) == prober[p].pc = "idle" /\ (p = "p2" => prober["p1"].pc # "idle")

FirstIdleRun(r) == replay[r].pc = "idle" /\ (r = "r2" => replay["r1"].pc # "idle")

OldestWaiting(e) == rcvQ[e] > 0 /\ \A o \in 1..(e - 1) : rcvQ[o] = 0

QueueRoom ==
  endpoints["ep1"].circuitState = "open" => Len(replayQueue) < MaxQueue

Arrive(targets, bodies, valids) ==
  \E i \in targets, b \in bodies, v \in valids : IngestLookup(i, b, v)

IngestSteps ==
  \/ IngestStore
  \/ IngestRespond
  \/ \E e \in sendInFlight : SendSettles(e)

LocalSteps ==
  \E w \in Workers :
    \/ Throttle(w)
    \/ EmitCircuitOpened(w)
    \/ Backoff(w)
    \/ EmitRetry(w)
    \/ EmitFlowStep(w)

WorkerSteps ==
  \E w \in Workers :
    \/ EnqueuePosition(w)
    \/ EnqueueInsert(w)
    \/ Deliver(w)
    \/ RecordDelivery(w)
    \/ UpdateCircuitBreaker(w)

ProberSteps ==
  \E p \in Probers :
    \/ \E id \in EndpointIds, ok \in BOOLEAN : ProberCheck(p, id, ok)
    \/ ProberEmit(p)

ReplaySteps ==
  \E r \in Runs :
    \/ ReplayCheckState(r)
    \/ ReplayFetchBatch(r)
    \/ ReplayPreCheck(r)
    \/ ReplayDedupCheck(r)
    \/ ReplaySkipDedup(r)
    \/ ReplaySkipFailed(r)
    \/ ReplayMarkDelivering(r)
    \/ ReplayDeliver(r)
    \/ ReplayRecord(r)
    \/ ReplayCircuitUpdate(r)
    \/ ReplayMark(r)

----------------------------------------------------------------------------
(* Spec: the handlers run one at a time, each to its end; a waiting task   *)
(* is handled before anything else starts, and the producer sends the next *)
(* request when no task is waiting (events delivered one after another).   *)
(* The destination changes between handlers and between the POSTs of a     *)
(* replay run.                                                             *)

Quiet == ~IngestBusy /\ ~HandlerBusy

SeqBodies == IF Len(events) + 1 \in Retransmitted THEN {BodyEvt1} ELSE {BodyNoId}

SeqArrive ==
  /\ Quiet /\ ~TaskWaiting /\ QueueRoom
  /\ Len(events) < MaxEvents
  /\ Arrive({"i1"}, SeqBodies, {TRUE})

SeqStartDeliver ==
  \E w \in Workers, e \in 1..Len(events) :
    Quiet /\ FirstIdle(w) /\ OldestWaiting(e) /\ StartDeliver(w, e)

SeqStartRetry ==
  \E w \in Workers, t \in retryQ : Quiet /\ FirstIdle(w) /\ StartRetry(w, t)

SeqProberFetch == Quiet /\ ~TaskWaiting /\ ProberFetch("p1")

SeqReplayStart == Quiet /\ ~TaskWaiting /\ ReplayStart("r1")

SeqDestChanges ==
  \E m \in DestModes :
    /\ ~IngestBusy
    /\ replay["r1"].pc = "idle" => ~HandlerBusy /\ ~TaskWaiting
    /\ DestChanges(m)

Next ==
  \/ SeqArrive
  \/ IngestSteps
  \/ SeqStartDeliver
  \/ SeqStartRetry
  \/ LocalSteps
  \/ WorkerSteps
  \/ SeqProberFetch
  \/ ProberSteps
  \/ SeqReplayStart
  \/ ReplaySteps
  \/ SeqDestChanges

Spec == Init /\ [][Next]_vars

----------------------------------------------------------------------------
(* SpecIngest: the ingestion endpoint alone, over every target, body and   *)
(* signature outcome.                                                      *)

IngestArrive == Len(events) < MaxIngest /\ Arrive(RequestTargets, Bodies, BOOLEAN)

NextIngest ==
  \/ IngestArrive
  \/ IngestSteps
  \/ \E e \in sendInFlight : SendFails(e)

SpecIngest == Init /\ [][NextIngest]_vars

----------------------------------------------------------------------------
(* SpecRequests: the ingestion endpoint alone, as SpecIngest, and the      *)
(* producer may also send the JSON text null as the body.                  *)

RequestArrive == Len(events) < MaxIngest /\ Arrive(RequestTargets, AnyBodies, BOOLEAN)

NextRequests ==
  \/ RequestArrive
  \/ IngestSteps
  \/ IngestInsertFails
  \/ \E e \in sendInFlight : SendFails(e)

SpecRequests == Init /\ [][NextRequests]_vars

----------------------------------------------------------------------------
(* SpecReconcile: the ingestion endpoint and the reconciliation engine.    *)
(* Stripe notifications reach i1 and Shopify ones i4, between two cycles   *)
(* or between the moment a cycle has read the events table and one of its  *)
(* inserts; a request is served before the cycle moves on.  The            *)
(* destination is healthy and the webhook/received tasks stay in the queue.*)

ReconcileBodies(i) == IF Provider(i) = "shopify" THEN {BodyOrder} ELSE {BodyCharge, BodyRefund}

\* the Events stored by the ingestion endpoint
WebhookEvents == {k \in 1..Len(events) : events[k].source = "webhook"}

ReconcileArrive ==
  \E i \in {"i1", "i4"} :
    /\ Cardinality(WebhookEvents) < MaxIngest
    /\ recon.pc \in {"idle", "insert"}
    /\ Arrive({i}, ReconcileBodies(i), {TRUE})

NextReconcile ==
  \/ ReconcileArrive
  \/ IngestSteps
  \/ \E i \in IntegrationIds : \E listing \in Listings(i) :
       ~IngestBusy /\ ReconcileFetch(i, listing)
  \/ \E i \in IntegrationIds : ~IngestBusy /\ ReconcileFetchThrows(i)
  \/ ~IngestBusy /\ ReconcileSelect
  \/ \E x \in recon.gaps : ~IngestBusy /\ ReconcileInsert(x)
  \/ ~IngestBusy /\ ReconcileSend
  \/ ~IngestBusy /\ ReconcileLog

InitReconcile == Init /\ dest.mode = "ok"

SpecReconcile == InitReconcile /\ [][NextReconcile]_vars

----------------------------------------------------------------------------
(* Management API: POST /api/integrations.  SpecCreate: an integration is  *)
(* created through the management API, the provider sends it               *)
(* notifications and the delivery worker handles them.                     *)

\* the id the database gives the row the management API inserts
NewIntegrationId == "i3"

\* lines 32-67: an authenticated, well-formed request inserts one integrations
\* row (status active) and answers 201
CreateIntegration ==
  /\ NewIntegrationId \notin created
  /\ created' = created \cup {NewIntegrationId}
  /\ UNCHANGED << req, events, sendInFlight, rcvQ, retryQ, replayStartedQ, circuitOpened,
                  wk, deliveries, endpoints, replayQueue, prober, replay, dest, hist,
                  recon, reconciliationRuns, tx, clsCall >>

CreateArrive ==
  Len(events) < MaxIngest /\ Arrive({NewIntegrationId}, {BodyCharge, BodyRefund}, {TRUE})

NextCreate ==
  \/ CreateIntegration
  \/ CreateArrive
  \/ IngestSteps
  \/ \E w \in Workers, e \in 1..MaxEvents : StartDeliver(w, e)
  \/ \E w \in Workers : DirectDeliver(w)
  \/ \E w \in Workers : RecordDirectDelivery(w)

SpecCreate == Init /\ [][NextCreate]_vars

----------------------------------------------------------------------------
(* SpecClassify: the error classifier called once, on each combination of  *)
(* a status code, the keywords the error message contains and a            *)
(* Retry-After header.                                                     *)

\* no response, and the statuses around each rule of the classifier
StatusCodes == {NoStatus, 404, 429, 499, 500, 502, 503}

\* the words classifyDeliveryError looks for in the lower-cased message
Keywords == {"abort", "timeout", "ssl", "tls", "certificate",
             "econnrefused", "connection refused", "enotfound"}

\* an error message, as the set of these words it contains ({}: no message,
\* or a message with none of them)
ErrorMessages == SUBSET Keywords

InitClassify ==
  /\ req = IdleReq
  /\ events = << >>
  /\ sendInFlight = {}
  /\ rcvQ = [e \in 1..MaxEvents |-> 0]
  /\ retryQ = {}
  /\ replayStartedQ = 0
  /\ circuitOpened = 0
  /\ wk = [w \in Workers |-> IdleWorker]
  /\ deliveries = << >>
  /\ endpoints = [id \in EndpointIds |-> NewEndpoint]
  /\ replayQueue = << >>
  /\ prober = [p \in Probers |-> IdleProber]
  /\ replay = [r \in Runs |-> IdleReplay]
  /\ dest = [mode |-> "ok", flips |-> 0, failed |-> 0]
  /\ hist = InitHist
  /\ created = {}
  /\ recon = IdleRecon
  /\ reconciliationRuns = << >>
  /\ tx = [c \in Calls |-> IdleCall]
  /\ clsCall \in [pc : {"called"}, statusCode : StatusCodes, error : ErrorMessages,
                  retryAfterHeader : RetryAfterHeaders, result : {Null}]

\* classifyDeliveryError(statusCode, error, retryAfterHeader) returns
Classify ==
  /\ clsCall.pc = "called"
  /\ clsCall' = [clsCall EXCEPT
                   !.pc = "returned",
                   !.result = classifyDeliveryError(clsCall.statusCode, clsCall.error,
                                                    clsCall.retryAfterHeader)]
  /\ UNCHANGED << req, events, sendInFlight, rcvQ, retryQ, replayStartedQ, circuitOpened,
                  wk, deliveries, endpoints, replayQueue, prober, replay, dest, hist,
                  created, recon, reconciliationRuns, tx >>

NextClassify == Classify

SpecClassify == InitClassify /\ [][NextClassify]_vars

----------------------------------------------------------------------------
(* SpecBreaker: concurrent calls of the circuit breaker on one endpoint,   *)
(* each transaction run statement by statement.  A delivery call follows   *)
(* the insert of its deliveries row, as in every handler that makes it     *)
(* (record-delivery before update-circuit-breaker).                        *)

BreakerEndpoint == "ep1"

\* calls (ghost) that hold the row lock of the endpoint
LockHolders == {c \in Calls : tx[c].pc \in {"locked", "window", "updated"}}

FirstIdleCall(c) == tx[c].pc = "idle" /\ \A o \in Calls : tx[o].pc = "idle" => ~(o < c)

\* a handler calls recordDeliveryResult (after inserting its deliveries row)
\* or recordHealthCheckResult: db.transaction begins
TxBegin(c, kind, success) ==
  /\ FirstIdleCall(c)
  /\ hist.calls < MaxCalls
  /\ tx' = [tx EXCEPT ![c] = [IdleCall EXCEPT !.pc = "begun", !.kind = kind,
                                              !.success = success]]
  /\ deliveries' = IF kind = "delivery"
                   THEN Append(deliveries,
                               DeliveryRow(Len(deliveries) + 1, BreakerEndpoint, success,
                                           IF success THEN 200 ELSE 500,
                                           IF success THEN Null ELSE "server_error", 1))
                   ELSE deliveries
  /\ hist' = [hist EXCEPT !.calls = @ + 1]
  /\ UNCHANGED << req, events, sendInFlight, rcvQ, retryQ, replayStartedQ, circuitOpened,
                  wk, endpoints, replayQueue, prober, replay, dest,
                  created, recon, reconciliationRuns, clsCall >>

\* a SELECT ... FOR UPDATE that reads the row without waiting for the lock
TxLockWithoutWaiting(c) ==
  /\ tx[c].pc = "begun"
  /\ tx' = [tx EXCEPT ![c].pc = "locked",
                      ![c].row = endpoints[BreakerEndpoint],
                      ![c].previousState = endpoints[BreakerEndpoint].circuitState]
  /\ UNCHANGED << req, events, sendInFlight, rcvQ, retryQ, replayStartedQ, circuitOpened,
                  wk, deliveries, endpoints, replayQueue, prober, replay, dest, hist,
                  created, recon, reconciliationRuns, clsCall >>

\* lines 41-46 and 131-136: SELECT ... FOR UPDATE waits until no other
\* transaction holds the row lock, then reads the committed row
TxLock(c) ==
  /\ tx[c].pc = "begun"
  /\ LockHolders = {}
  /\ tx' = [tx EXCEPT ![c].pc = "locked",
                      ![c].row = endpoints[BreakerEndpoint],
                      ![c].previousState = endpoints[BreakerEndpoint].circuitState]
  /\ UNCHANGED << req, events, sendInFlight, rcvQ, retryQ, replayStartedQ, circuitOpened,
                  wk, deliveries, endpoints, replayQueue, prober, replay, dest, hist,
                  created, recon, reconciliationRuns, clsCall >>

\* lines 55-63: recordDeliveryResult reads the last deliveries of the endpoint
TxWindow(c) ==
  /\ tx[c].pc = "locked"
  /\ tx[c].kind = "delivery"
  /\ tx' = [tx EXCEPT ![c].pc = "window", ![c].seen = Len(deliveries)]
  /\ UNCHANGED << req, events, sendInFlight, rcvQ, retryQ, replayStartedQ, circuitOpened,
                  wk, deliveries, endpoints, replayQueue, prober, replay, dest, hist,
                  created, recon, reconciliationRuns, clsCall >>

\* the deliveries table as the call read it (the table only grows)
SeenDeliveries(c) == SubSeq(deliveries, 1, tx[c].seen)

\* lines 65-118: recordDeliveryResult computes the row and updates it
TxUpdateDelivery(c) ==
  /\ tx[c].pc = "window"
  /\ tx' = [tx EXCEPT ![c].pc = "updated",
                      ![c].wrote = TRUE,
                      ![c].row = recordDeliveryResult(tx[c].row, SeenDeliveries(c),
                                                      BreakerEndpoint, tx[c].success)]
  /\ UNCHANGED << req, events, sendInFlight, rcvQ, retryQ, replayStartedQ, circuitOpened,
                  wk, deliveries, endpoints, replayQueue, prober, replay, dest, hist,
                  created, recon, reconciliationRuns, clsCall >>

\* lines 142-173: recordHealthCheckResult returns at once unless the circuit
\* is OPEN, else computes the row and updates it (wrote: tx.update was executed)
TxUpdateHealthCheck(c) ==
  /\ tx[c].pc = "locked"
  /\ tx[c].kind = "health"
  /\ tx' = [tx EXCEPT ![c].pc = "updated",
                      ![c].wrote = tx[c].previousState = "open",
                      ![c].row = recordHealthCheckResult(tx[c].row, tx[c].success)]
  /\ UNCHANGED << req, events, sendInFlight, rcvQ, retryQ, replayStartedQ, circuitOpened,
                  wk, deliveries, endpoints, replayQueue, prober, replay, dest, hist,
                  created, recon, reconciliationRuns, clsCall >>

\* the row after the same call applied to the row the calls committed before
\* it leave when they are applied one at a time (ghost)
SerialAfter(c) ==
  IF tx[c].kind = "delivery"
  THEN recordDeliveryResult(hist.serial, SeenDeliveries(c), BreakerEndpoint, tx[c].success)
  ELSE recordHealthCheckResult(hist.serial, tx[c].success)

\* lines 120-121 and 175-176: the transaction commits; the row becomes
\* visible and the lock is released
TxCommit(c) ==
  /\ tx[c].pc = "updated"
  /\ endpoints' = [endpoints EXCEPT ![BreakerEndpoint] = tx[c].row]
  /\ tx' = [tx EXCEPT ![c].pc = "idle"]
  /\ hist' = [hist EXCEPT !.serial = SerialAfter(c)]
  /\ UNCHANGED << req, events, sendInFlight, rcvQ, retryQ, replayStartedQ, circuitOpened,
                  wk, deliveries, replayQueue, prober, replay, dest,
                  created, recon, reconciliationRuns, clsCall >>

\* k failed deliveries, k successful probes, recorded one after the other
Fails(k) == [j \in 1..k |-> [kind |-> "delivery", success |-> FALSE]]
Probes(k) == [j \in 1..k |-> [kind |-> "health", success |-> TRUE]]

\* what the endpoint has been through before the concurrent calls
Histories ==
  {Fails(k) \o Probes(j) : k \in 0..MaxPriorFailures, j \in 0..MaxPriorProbes}

\* the endpoints row and the deliveries table after the calls of h, each
\* delivery call after the insert of its row
RECURSIVE AfterCalls(_)
AfterCalls(h) ==
  IF h = << >> THEN [endpoint |-> NewEndpoint, deliveries |-> << >>]
  ELSE
    LET before == AfterCalls(Prefix(h, Len(h) - 1))
        call == h[Len(h)]
        ds == Append(before.deliveries,
                     DeliveryRow(Len(before.deliveries) + 1, BreakerEndpoint, call.success,
                                 IF call.success THEN 200 ELSE 500,
                                 IF call.success THEN Null ELSE "server_error", 1))
    IN IF call.kind = "delivery"
       THEN [endpoint |-> recordDeliveryResult(before.endpoint, ds, BreakerEndpoint,
                                               call.success),
             deliveries |-> ds]
       ELSE [endpoint |-> recordHealthCheckResult(before.endpoint, call.success),
             deliveries |-> before.deliveries]

InitBreaker ==
  /\ req = IdleReq
  /\ events = << >>
  /\ sendInFlight = {}
  /\ rcvQ = [e \in 1..MaxEvents |-> 0]
  /\ retryQ = {}
  /\ replayStartedQ = 0
  /\ circuitOpened = 0
  /\ wk = [w \in Workers |-> IdleWorker]
  /\ \E h \in Histories :
       /\ deliveries = AfterCalls(h).deliveries
       /\ endpoints = [id \in EndpointIds |-> AfterCalls(h).endpoint]
       /\ hist = [InitHist EXCEPT !.serial = AfterCalls(h).endpoint]
  /\ replayQueue = << >>
  /\ prober = [p \in Probers |-> IdleProber]
  /\ replay = [r \in Runs |-> IdleReplay]
  /\ dest = [mode |-> "ok", flips |-> 0, failed |-> 0]
  /\ InitRest

NextBreaker ==
  \/ \E c \in Calls : \E kind \in {"delivery", "health"} : \E success \in BOOLEAN :
       TxBegin(c, kind, success)
  \/ \E c \in Calls : TxLock(c)
  \/ \E c \in Calls : TxWindow(c)
  \/ \E c \in Calls : TxUpdateDelivery(c)
  \/ \E c \in Calls : TxUpdateHealthCheck(c)
  \/ \E c \in Calls : TxCommit(c)

SpecBreaker == InitBreaker /\ [][NextBreaker]_vars

----------------------------------------------------------------------------
(* SpecReplay: one replay run over a long queue.  The run starts in the    *)
(* state the service is in after the destination failed events 1 and 2     *)
(* (two attempts each, which opened the circuit), the following events     *)
(* were queued while the circuit was OPEN, and three probes succeeded: the *)
(* endpoint is HALF_OPEN and one endpoint/replay-started task is waiting.  *)
(* The destination answers every POST of the run as it likes, and fails at *)
(* most MAX_SKIP_ATTEMPTS of them (what it takes to exhaust the budget of  *)
(* an item).                                                               *)

MaxReplayItems == 29   \* events queued while the circuit was open
MaxLiveItems == 11     \* the same, in the runs with the prober alongside

\* the Delivery rows of the attempts that opened the circuit
OpeningRows ==
  << DeliveryRow(1, ReplayEndpoint, FALSE, 503, "server_error", 1),
     DeliveryRow(1, ReplayEndpoint, FALSE, 503, "server_error", 2),
     DeliveryRow(2, ReplayEndpoint, FALSE, 503, "server_error", 1),
     DeliveryRow(2, ReplayEndpoint, FALSE, 503, "server_error", 2) >>

\* the endpoints row after the first k of these attempts were recorded
RECURSIVE RowAfterFailures(_)
RowAfterFailures(k) ==
  IF k = 0 THEN NewEndpoint
  ELSE recordDeliveryResult(RowAfterFailures(k - 1), Prefix(OpeningRows, k),
                            ReplayEndpoint, FALSE)

\* ... and after k successful probes
RECURSIVE RowAfterProbes(_)
RowAfterProbes(k) ==
  IF k = 0 THEN RowAfterFailures(Len(OpeningRows))
  ELSE recordHealthCheckResult(RowAfterProbes(k - 1), TRUE)

\* the request the producer sent as its k-th event
ProducerRequest(k) ==
  [integrationId |-> "i1", valid |-> TRUE,
   body |-> IF k \in Retransmitted THEN BodyEvt1 ELSE BodyNoId]

\* the request another Stripe account sent to the integration created through
\* the management API: an event with the id of a retransmitted one
ForeignRequest == [integrationId |-> NewIntegrationId, valid |-> TRUE, body |-> BodyEvt1]

\* the events stored: those of the producer and, when foreign, as third one
\* the event of the created integration
StoredRequests(n, foreign) ==
  IF foreign
  THEN [k \in 1..(n + 3) |-> IF k = 3 THEN ForeignRequest
                             ELSE ProducerRequest(IF k < 3 THEN k ELSE k - 1)]
  ELSE [k \in 1..(n + 2) |-> ProducerRequest(k)]

\* the state in which n events are queued
InitReplayWith(n, foreign) ==
  LET stored == StoredRequests(n, foreign)
      first == Len(stored) - n + 1
  IN
    /\ req = [IdleReq EXCEPT !.pc = "done", !.integrationId = "i1",
                             !.body = stored[Len(stored)].body, !.valid = TRUE,
                             !.status = 200, !.eventId = Len(stored)]
    /\ events = [k \in 1..Len(stored) |-> NewEventRow(stored[k])]
    /\ sendInFlight = {}
    /\ rcvQ = [e \in 1..MaxEvents |-> 0]
    /\ retryQ = {}
    /\ replayStartedQ = 1
    /\ circuitOpened = 0
    /\ wk = [w \in Workers |-> IdleWorker]
    /\ deliveries = IF foreign
                    THEN Append(OpeningRows, DeliveryRow(3, Null, TRUE, 200, Null, 1))
                    ELSE OpeningRows
    /\ endpoints = [id \in EndpointIds |-> RowAfterProbes(HEALTH_CHECKS_FOR_HALF_OPEN)]
    /\ replayQueue =
         [k \in 1..n |->
            NewReplayItem(ReplayEndpoint, k + first - 1,
                          extractCorrelationKey("stripe", ParsePayload(stored[k + first - 1].body)),
                          k)]
    /\ prober = [p \in Probers |-> IdleProber]
    /\ replay = [r \in Runs |-> IdleReplay]
    /\ dest \in [mode : DestModes, flips : {0}, failed : {MaxFailures - MAX_SKIP_ATTEMPTS}]
    /\ hist = [InitHist EXCEPT !.probeStreak = HEALTH_CHECKS_FOR_HALF_OPEN,
                               !.seen = {<< "closed", "open" >>, << "open", "half_open" >>},
                               !.retried = {1, 2}, !.emitted = 1..Len(stored)]
    /\ created = IF foreign THEN {NewIntegrationId} ELSE {}
    /\ recon = IdleRecon
    /\ reconciliationRuns = << >>
    /\ tx = [c \in Calls |-> IdleCall]
    /\ clsCall = NoClassifyCall

InitReplay == InitReplayWith(MaxReplayItems, FALSE)

\* the destination changes what it answers to the next POST of the run
ReplayDestChanges ==
  /\ \E r \in Runs : replay[r].pc = "deliver"
  /\ \E m \in DestModes :
       /\ m # dest.mode
       /\ dest' = [dest EXCEPT !.mode = m]
  /\ UNCHANGED << req, events, sendInFlight, rcvQ, retryQ, replayStartedQ, circuitOpened,
                  wk, deliveries, endpoints, replayQueue, prober, replay, hist, mgmt >>

NextReplay ==
  \/ ReplayStart("r1")
  \/ ReplayCheckState("r1")
  \/ ReplayFetchBatch("r1")
  \/ ReplayPreCheck("r1")
  \/ ReplayDedupCheck("r1")
  \/ ReplaySkipDedup("r1")
  \/ ReplaySkipFailed("r1")
  \/ ReplayMarkDelivering("r1")
  \/ ReplayDeliver("r1")
  \/ ReplayRecord("r1")
  \/ ReplayCircuitUpdate("r1")
  \/ ReplayMark("r1")
  \/ ReplayDestChanges

SpecReplay == InitReplay /\ [][NextReplay]_vars

\* the steps of the replay run (Inngest runs the next step of a started
\* function, and retries it, until the function returns)
RunSteps ==
  \/ ReplayStart("r1")
  \/ ReplayCheckState("r1")
  \/ ReplayFetchBatch("r1")
  \/ ReplayPreCheck("r1")
  \/ ReplayDedupCheck("r1")
  \/ ReplaySkipDedup("r1")
  \/ ReplaySkipFailed("r1")
  \/ ReplayMarkDelivering("r1")
  \/ ReplayDeliver("r1")
  \/ ReplayRecord("r1")
  \/ ReplayCircuitUpdate("r1")
  \/ ReplayMark("r1")

\* SpecReplayProbed: the replay run with the health prober running alongside.
\* The prober probes the endpoint whenever it is OPEN, at any pace, and a probe
\* that moves it to HALF_OPEN emits endpoint/replay-started, which starts the
\* next run; a started run is not left waiting forever (weak fairness on its
\* steps), the prober may stop at any time.
NextReplayProbed ==
  \/ NextReplay
  \/ ProberFetch("p1")
  \/ \E ok \in BOOLEAN : ProberCheck("p1", ReplayEndpoint, ok)
  \/ ProberEmit("p1")

SpecReplayProbed ==
  InitReplayWith(MaxLiveItems, FALSE) /\ [][NextReplayProbed]_vars /\ WF_vars(RunSteps)

\* SpecDedup: the replay run of SpecReplay, after an event of the integration
\* created through the management API was delivered directly (that integration
\* has no endpoints row) while the circuit of the first integration was OPEN
InitDedup == InitReplayWith(MaxLiveItems, TRUE)

SpecDedup == InitDedup /\ [][NextReplay]_vars

----------------------------------------------------------------------------
(* SpecOverlap: the handlers overlap.  While the circuit is closed the     *)
(* handlers start one at a time; while it is open or half-open requests,   *)
(* delivery and retry handlers, the prober and the replay engine           *)
(* interleave step by step, and a send may fail.  A request is served      *)
(* before any other handler moves, and a step that touches no table (a     *)
(* sleep, an emit) runs right after the step before it: these steps        *)
(* commute with the steps of every other handler, so no interleaving of    *)
(* table accesses is lost.                                                 *)

Overlap == endpoints["ep1"].circuitState # "closed"

Turn == ~IngestBusy /\ ~LocalBusy

MayStart == Turn /\ (Overlap \/ ~HandlerBusy)

\* the requests of the run are about one customer and carry the Stripe events
\* evt_1 and evt_2 in turn (the provider sends each more than once)
OvBodies == IF (Len(events) + 1) % 2 = 1 THEN {BodyCharge} ELSE {BodyRefund}

OvArrive ==
  /\ ~IngestBusy
  /\ Overlap \/ (~HandlerBusy /\ ~TaskWaiting)
  /\ Len(events) < MaxOverlapEvents
  /\ Arrive({"i1"}, OvBodies, {TRUE})

OvSendFails == \E e \in sendInFlight : SendFails(e)

OvStartDeliver ==
  \E w \in Workers, e \in 1..Len(events) :
    MayStart /\ FirstIdle(w) /\ OldestWaiting(e) /\ StartDeliver(w, e)

OvStartRetry ==
  \E w \in Workers, t \in retryQ : MayStart /\ FirstIdle(w) /\ StartRetry(w, t)

OvEnqueuePosition == \E w \in Workers : Turn /\ EnqueuePosition(w)

OvEnqueueInsert == \E w \in Workers : Turn /\ EnqueueInsert(w)

OvDeliver == \E w \in Workers : Turn /\ Deliver(w)

OvRecordDelivery == \E w \in Workers : Turn /\ RecordDelivery(w)

OvUpdateCircuitBreaker == \E w \in Workers : Turn /\ UpdateCircuitBreaker(w)

OvProberFetch == MayStart /\ ProberFetch("p1")

OvProberCheck == \E id \in EndpointIds, ok \in BOOLEAN : Turn /\ ProberCheck("p1", id, ok)

OvProberEmit == Turn /\ ProberEmit("p1")

OvReplayStart == \E r \in Runs : MayStart /\ FirstIdleRun(r) /\ ReplayStart(r)

OvReplayCheckState == \E r \in Runs : Turn /\ ReplayCheckState(r)

OvReplayFetchBatch == \E r \in Runs : Turn /\ ReplayFetchBatch(r)

OvReplayPreCheck == \E r \in Runs : Turn /\ ReplayPreCheck(r)

OvReplayDedupCheck == \E r \in Runs : Turn /\ ReplayDedupCheck(r)

OvReplaySkipDedup == \E r \in Runs : Turn /\ ReplaySkipDedup(r)

OvReplaySkipFailed == \E r \in Runs : Turn /\ ReplaySkipFailed(r)

OvReplayMarkDelivering == \E r \in Runs : Turn /\ ReplayMarkDelivering(r)

OvReplayDeliver == \E r \in Runs : Turn /\ ReplayDeliver(r)

OvReplayRecord == \E r \in Runs : Turn /\ ReplayRecord(r)

OvReplayCircuitUpdate == \E r \in Runs : Turn /\ ReplayCircuitUpdate(r)

OvReplayMark == \E r \in Runs : Turn /\ ReplayMark(r)

OvDestChanges == \E m \in DestModes : Turn /\ DestChanges(m)

NextOverlap ==
  \/ OvArrive
  \/ IngestSteps
  \/ OvSendFails
  \/ LocalSteps
  \/ OvStartDeliver
  \/ OvStartRetry
  \/ OvEnqueuePosition
  \/ OvEnqueueInsert
  \/ OvDeliver
  \/ OvRecordDelivery
  \/ OvUpdateCircuitBreaker
  \/ OvProberFetch
  \/ OvProberCheck
  \/ OvProberEmit
  \/ OvReplayStart
  \/ OvReplayCheckState
  \/ OvReplayFetchBatch
  \/ OvReplayPreCheck
  \/ OvReplayDedupCheck
  \/ OvReplaySkipDedup
  \/ OvReplaySkipFailed
  \/ OvReplayMarkDelivering
  \/ OvReplayDeliver
  \/ OvReplayRecord
  \/ OvReplayCircuitUpdate
  \/ OvReplayMark
  \/ OvDestChanges

SpecOverlap == Init /\ [][NextOverlap]_vars

----------------------------------------------------------------------------
(* SpecProbers: as Spec, but a cron tick starts a health-check run while   *)
(* the run of an earlier tick has not returned yet.                        *)

ProbersFetch ==
  \E p \in Probers :
    /\ ~IngestBusy /\ ~TaskWaiting
    /\ \A w \in Workers : wk[w].pc = "idle"
    /\ \A r \in Runs : replay[r].pc = "idle"
    /\ FirstIdleProber(p)
    /\ ProberFetch(p)

NextProbers ==
  \/ SeqArrive
  \/ IngestSteps
  \/ SeqStartDeliver
  \/ SeqStartRetry
  \/ LocalSteps
  \/ WorkerSteps
  \/ ProbersFetch
  \/ ProberSteps
  \/ SeqReplayStart
  \/ ReplaySteps
  \/ SeqDestChanges

SpecProbers == Init /\ [][NextProbers]_vars

----------------------------------------------------------------------------
(* SpecErrors: as Spec, with a destination that may fail in each of the    *)
(* ways the classification tells apart.                                    *)

InitErrors ==
  /\ req = IdleReq
  /\ events = << >>
  /\ sendInFlight = {}
  /\ rcvQ = [e \in 1..MaxEvents |-> 0]
  /\ retryQ = {}
  /\ replayStartedQ = 0
  /\ circuitOpened = 0
  /\ wk = [w \in Workers |-> IdleWorker]
  /\ deliveries = << >>
  /\ endpoints = [id \in EndpointIds |-> NewEndpoint]
  /\ replayQueue = << >>
  /\ prober = [p \in Probers |-> IdleProber]
  /\ replay = [r \in Runs |-> IdleReplay]
  /\ dest \in [mode : AllModes, flips : {0}, failed : {0}]
  /\ hist = InitHist
  /\ InitRest

SpecErrors == InitErrors /\ [][Next]_vars

----------------------------------------------------------------------------
(* SpecManual: as Spec, and the owner asks for the replay of the Event     *)
(* stored last, between two handlers.                                      *)

\* the request names the Event stored last
SeqManualReplay ==
  \E e \in {Len(events)} : Quiet /\ ~TaskWaiting /\ ManualReplay(e)

NextManual ==
  \/ SeqArrive
  \/ IngestSteps
  \/ SeqStartDeliver
  \/ SeqStartRetry
  \/ LocalSteps
  \/ WorkerSteps
  \/ SeqProberFetch
  \/ ProberSteps
  \/ SeqReplayStart
  \/ ReplaySteps
  \/ SeqDestChanges
  \/ SeqManualReplay

SpecManual == Init /\ [][NextManual]_vars

----------------------------------------------------------------------------
(* Properties *)

\* The payload the request's Event must hold: the parsed JSON body, or
\* {raw: body} when the body does not parse.
ExpectedPayload(b) == IF JsonValid(b) THEN JsonParse(b) ELSE [raw |-> b]

\* C1: whenever ingestion has returned 200 for a request, the Event row of that
\* request exists, belongs to the request's integration and holds the request's
\* payload (parsed JSON, or {raw: body}); no 200 without a stored Event.
C1_StoredBeforeOk ==
  req.status = 200 =>
    /\ req.eventId \in 1..Len(events)
    /\ events[req.eventId].integrationId = req.integrationId
    /\ events[req.eventId].payload = ExpectedPayload(req.body)

\* a request with a body that is no JSON has been answered 200
C1_Witness ==
  /\ req.pc = "done" /\ req.status = 200 /\ req.body = BodyBad
  /\ events[req.eventId].payload = [raw |-> BodyBad]

\* a delivery handler has taken the webhook/received task of Event e (now or
\* earlier)
Handled(e) ==
  \/ \E w \in Workers : wk[w].pc # "idle" /\ wk[w].eventId = e
  \/ \E k \in 1..Len(deliveries) : deliveries[k].eventId = e
  \/ \E k \in 1..Len(replayQueue) : replayQueue[k].eventId = e

\* Event e has no task being sent, no task waiting and no handler that took one
Orphan(e) == e \notin sendInFlight /\ rcvQ[e] = 0 /\ ~Handled(e)

\* the request that stored Event e has been answered 200
Accepted(e) == req.eventId = e => req.pc = "done"

\* C2: every Event accepted by ingestion gets a webhook/received task processed,
\* also when the send at ingestion fails: no stored Event is left without a
\* task in flight, a waiting task or a handler that has taken it.
C2_AcceptedEventsAreProcessed ==
  \A e \in 1..Len(events) : Accepted(e) => ~Orphan(e)

\* an Event left without a task stays without one: no step of the program
\* emits webhook/received for it again
OrphanStaysOrphan ==
  [][\A e \in 1..Len(events) : Orphan(e) => Orphan(e)']_vars

\* nothing is running, waiting or in flight
AllQuiet ==
  /\ ~IngestBusy /\ ~HandlerBusy /\ ~TaskWaiting
  /\ replayStartedQ = 0

\* C3: with a healthy destination every ReplayQueueItem is drained: when the
\* endpoint has left OPEN and no handler, task or replay run is left, no item
\* is still pending (an item enqueued around the OPEN -> HALF_OPEN change
\* included).
C3_QueueIsDrained ==
  (AllQuiet /\ Answer = "ok" /\ endpoints[ReplayEndpoint].circuitState # "open")
    => \A k \in 1..Len(replayQueue) : replayQueue[k].status \in {"delivered", "skipped"}

\* The window of the transition table: the last SLIDING_WINDOW_SIZE deliveries
\* of the endpoint recorded before the incoming one, and the incoming one counted
\* once.  The handler has inserted the row of the incoming delivery before it
\* calls recordDeliveryResult, so that row is the newest of the endpoint.
PreviousRows(ds, id) ==
  LET rows == LastRows(ds, id, Len(ds), SLIDING_WINDOW_SIZE + 1)
  IN IF rows = << >> THEN << >> ELSE Tail(rows)

TableWindowSize(ds, id) == Len(PreviousRows(ds, id)) + 1

TableWindowSuccesses(ds, id, success) ==
  CountDelivered(PreviousRows(ds, id)) + (IF success THEN 1 ELSE 0)

\* CLOSED -> OPEN of the table: consecutive failures >= 5, or window size >= 5
\* and success rate < 50%
TableOpenGuard(failures, ds, id, success) ==
  \/ failures >= 5
  \/ /\ TableWindowSize(ds, id) >= 5
     /\ TableWindowSuccesses(ds, id, success) * 100 < 50 * TableWindowSize(ds, id)

CircuitStates == {"closed", "half_open", "open"}

TableSteps ==
  {<< "closed", "open" >>, << "open", "half_open" >>,
   << "half_open", "closed" >>, << "half_open", "open" >>}

\* a step in which a handler's recordDeliveryResult call returns
DeliveryRecorded ==
  \/ \E w \in Workers : wk[w].pc = "breaker" /\ wk'[w].pc # "breaker"
  \/ \E r \in Runs : replay[r].pc = "circuit_update" /\ replay'[r].pc # "circuit_update"

\* the outcome that call was given
RecordedSuccess ==
  IF \E r \in Runs : replay[r].pc = "circuit_update" /\ replay'[r].pc # "circuit_update"
    THEN \E r \in Runs : replay[r].pc = "circuit_update" /\ replay'[r].pc # "circuit_update"
                          /\ replay[r].success
  ELSE \E w \in Workers : wk[w].pc = "breaker" /\ wk'[w].pc # "breaker" /\ wk[w].success

\* C4 (states and steps): circuit_state is always closed, half_open or open; it
\* only changes CLOSED->OPEN, OPEN->HALF_OPEN, HALF_OPEN->CLOSED or
\* HALF_OPEN->OPEN; a delivery recorded while OPEN leaves it OPEN.
C4_StatesAndSteps ==
  [][\A id \in EndpointIds :
       LET a == endpoints[id].circuitState
           b == endpoints'[id].circuitState
       IN /\ a \in CircuitStates /\ b \in CircuitStates
          /\ a # b => << a, b >> \in TableSteps
          /\ (DeliveryRecorded /\ a = "open") => b = "open"]_vars

\* C4: circuit_state is always closed, half_open or open, it only changes along
\* the four steps of the transition table, each only when its guard of the
\* table holds (CLOSED->OPEN: 5 consecutive failures, or a window of at least 5
\* with a success rate below 50%; OPEN->HALF_OPEN: 3 consecutive successful
\* probes; HALF_OPEN->CLOSED: 10 consecutive successes; HALF_OPEN->OPEN: 2
\* consecutive failures), and a delivery recorded while OPEN leaves it OPEN.
C4_TransitionTable ==
  [][\A id \in EndpointIds :
       LET a == endpoints[id].circuitState
           b == endpoints'[id].circuitState
           after == endpoints'[id]
       IN /\ a \in CircuitStates /\ b \in CircuitStates
          /\ a # b => << a, b >> \in TableSteps
          /\ (DeliveryRecorded /\ a = "open") => b = "open"
          /\ (a = "closed" /\ b = "open") =>
               /\ DeliveryRecorded
               /\ TableOpenGuard(after.consecutiveFailures, deliveries, id, RecordedSuccess)
          /\ (a = "open" /\ b = "half_open") =>
               (\E p \in Probers : prober[p].pc = "check") /\ after.consecutiveHealthChecks >= 3
          /\ (a = "half_open" /\ b = "closed") =>
               DeliveryRecorded /\ after.consecutiveSuccesses >= 10
          /\ (a = "half_open" /\ b = "open") =>
               DeliveryRecorded /\ after.consecutiveFailures >= 2]_vars

\* C5: a delivery recorded on a CLOSED endpoint opens the circuit if and only
\* if the updated consecutive failures are >= 5, or the window (the last 20
\* deliveries recorded before, plus the incoming one counted once) holds at
\* least 5 deliveries and its success rate is below 50%.
C5_OpensExactlyOnGuard ==
  [][\A id \in EndpointIds :
       (DeliveryRecorded /\ endpoints[id].circuitState = "closed") =>
         (endpoints'[id].circuitState = "open"
            <=> TableOpenGuard(endpoints'[id].consecutiveFailures, deliveries, id,
                               RecordedSuccess))]_vars

\* the destination has answered 503 to every POST of the run so far
AlwaysFailing ==
  /\ dest.mode = "503" /\ dest.flips = 0 /\ dest.failed < MaxFailures
  /\ \A k \in 1..Len(deliveries) : deliveries[k].status = "failed"

FirstAttempts ==
  {k \in 1..Len(deliveries) :
     deliveries[k].attemptNumber = 1 /\ deliveries[k].errorType = "server_error"}

\* the endpoint has opened and nothing has happened to it since
JustOpened ==
  /\ hist.seen = {<< "closed", "open" >>}
  /\ endpoints["ep1"].circuitState = "open"

\* C6: with a destination that answers 503 to every POST and events delivered
\* one after another, the endpoint stays CLOSED through the first four failed
\* deliveries and is OPEN when consecutive_failures reaches 5, with exactly 5
\* first-attempt server_error Delivery rows at that point.
C6_OpensAtFifthFailure ==
  AlwaysFailing =>
    /\ Len(deliveries) <= 4 => endpoints["ep1"].circuitState = "closed"
    /\ JustOpened =>
         /\ endpoints["ep1"].consecutiveFailures = 5
         /\ Cardinality(FirstAttempts) = 5

\* a step in which a health check of an OPEN endpoint is recorded
ProbeRecorded(id) ==
  /\ \E p \in Probers : prober[p].pc = "check" /\ prober'[p].pc # "check"
  /\ endpoints[id].circuitState = "open"

\* C7: an OPEN endpoint moves to HALF_OPEN exactly when a probe is recorded
\* that is the third consecutive successful one since the endpoint last entered
\* OPEN (a failed probe restarts the count, earlier OPEN periods do not count),
\* and on that step consecutive failures and successes are both reset to 0.
C7_HalfOpenAfterThreeProbes ==
  [][\A id \in EndpointIds :
       /\ ProbeRecorded(id) =>
            (endpoints'[id].circuitState = "half_open" <=> hist'.probeStreak = 3)
       /\ (endpoints[id].circuitState = "open" /\ endpoints'[id].circuitState = "half_open") =>
            /\ ProbeRecorded(id)
            /\ endpoints'[id].consecutiveFailures = 0
            /\ endpoints'[id].consecutiveSuccesses = 0]_vars

\* the endpoint is HALF_OPEN for the second time, after three probes of its
\* second OPEN period
C7_Witness ==
  /\ endpoints["ep1"].circuitState = "half_open"
  /\ << "half_open", "open" >> \in hist.seen
  /\ hist.probeStreak = 3
  /\ hist.halfOpenSuccesses = 0 /\ hist.halfOpenFailures = 0

\* C8: a delivery recorded on a HALF_OPEN endpoint closes the circuit exactly
\* when it is the 10th consecutive success since the endpoint entered
\* HALF_OPEN, opens it exactly when it is the 2nd consecutive failure since
\* then, and leaves it HALF_OPEN otherwise.
C8_HalfOpenThresholds ==
  [][\A id \in EndpointIds :
       (DeliveryRecorded /\ endpoints[id].circuitState = "half_open") =>
         /\ endpoints'[id].circuitState = "closed" <=> hist'.halfOpenSuccesses = 10
         /\ endpoints'[id].circuitState = "open" <=> hist'.halfOpenFailures = 2
         /\ endpoints'[id].circuitState \in CircuitStates]_vars

\* the circuit has closed on its 10th consecutive success in HALF_OPEN, after a
\* HALF_OPEN period that two failures ended
C8_Witness ==
  /\ endpoints["ep1"].circuitState = "closed"
  /\ hist.halfOpenSuccesses = 10
  /\ {<< "half_open", "open" >>, << "half_open", "closed" >>} \subseteq hist.seen

\* a step in which a handler sends its POST to the destination
PostSent ==
  \/ \E w \in Workers : wk[w].pc = "deliver" /\ wk'[w].pc = "record"
  \/ \E r \in Runs : replay[r].pc = "deliver" /\ replay'[r].pc = "record"

\* C9: no POST is sent to the destination by the delivery worker, the retry
\* handler or the replay engine while the endpoint's persisted circuit_state is
\* OPEN, whatever the interleaving of the handlers.
C9_NoPostWhileOpen ==
  [][PostSent => endpoints["ep1"].circuitState # "open"]_vars

\* C9 (second part): an event handled while OPEN is enqueued for replay: a
\* delivery or retry task taken while the state is OPEN leads to a
\* ReplayQueueItem of its event.
C9_HandledWhileOpenIsEnqueued ==
  [][\A t \in retryQ :
       (t \notin retryQ' /\ endpoints["ep1"].circuitState = "open") =>
         \/ \E k \in 1..Len(replayQueue') : replayQueue'[k].eventId = t.eventId
         \/ \E w \in Workers : wk'[w].pc # "idle" /\ wk'[w].eventId = t.eventId]_vars

\* C10: the positions of an endpoint's ReplayQueueItems are pairwise distinct
\* and increase in the order the items were created.
C10_PositionsIncrease ==
  \A i, j \in 1..Len(replayQueue) :
    (i < j /\ replayQueue[i].endpointId = replayQueue[j].endpointId)
      => replayQueue[i].position < replayQueue[j].position

\* C11: of two delivered ReplayQueueItems of the same endpoint and the same
\* correlation key, the one with the lower position has the earlier
\* delivered_at, whatever the destination answered during the drain: the items
\* of a drain are delivered in strictly ascending position.
C11_DeliveredInPositionOrder ==
  \A i, j \in 1..Len(replayQueue) :
    ( /\ replayQueue[i].endpointId = replayQueue[j].endpointId
      /\ replayQueue[i].correlationKey = replayQueue[j].correlationKey
      /\ replayQueue[i].status = "delivered" /\ replayQueue[j].status = "delivered"
      /\ replayQueue[i].position < replayQueue[j].position )
      => replayQueue[i].deliveredAt < replayQueue[j].deliveredAt

\* run r sends the POST of the item it is at
ReplayPostSent(r) == replay[r].pc = "deliver" /\ replay'[r].pc = "record"

\* run r has marked the item it is at as delivering and has not marked it
\* delivered or pending yet
ReplayHolds(r) == replay[r].pc \in {"deliver", "record", "circuit_update", "mark"}

\* C12: the replay engine sends no ReplayQueueItem twice: when a run POSTs an
\* item, no other run is delivering the same item and the item has never been
\* marked delivered, also when two runs of the same endpoint overlap.
C12_NoDuplicateReplayPost ==
  [][\A r \in Runs :
       ReplayPostSent(r) =>
         /\ replayQueue[Item(r).id].deliveredAt = 0
         /\ \A o \in Runs \ {r} : ReplayHolds(o) => Item(o).id # Item(r).id]_vars

\* Event e carries a provider event id that a delivered Delivery row already
\* covers (through e itself or through another Event with the same id)
DuplicateOfDelivered(e) ==
  /\ events[e].providerEventId # Null
  /\ \E d \in 1..Len(deliveries) :
       /\ deliveries[d].status = "delivered"
       /\ events[deliveries[d].eventId].providerEventId = events[e].providerEventId

\* run r decides what to do with the item it is at
DedupDecided(r) == replay[r].pc = "dedup_check" /\ replay'[r].pc # "dedup_check"

\* run r leaves the item it is at without sending it
SkippedAsDuplicate(r) == replay[r].pc = "skip_dedup" /\ replay'[r].pc # "skip_dedup"

\* C13: when the replay engine comes to an item whose Event has a non-null
\* provider_event_id and a delivered Delivery exists for an Event with the same
\* provider_event_id, it marks the item delivered without a POST and without
\* a Delivery row; an item whose Event has no provider_event_id is never
\* deduplicated.
C13_DedupSkipsDelivered ==
  [][\A r \in Runs :
       /\ DedupDecided(r) =>
            /\ DuplicateOfDelivered(replayQueue[Item(r).id].eventId)
                 => replay'[r].pc = "skip_dedup"
            /\ events[replayQueue[Item(r).id].eventId].providerEventId = Null
                 => replay'[r].pc # "skip_dedup"
       /\ SkippedAsDuplicate(r) =>
            /\ replayQueue'[Item(r).id].status = "delivered"
            /\ deliveries' = deliveries
            /\ dest' = dest
            /\ replay'[r].pc \in {"pre_check", "check_state"}]_vars

\* the item of a retransmitted Stripe event has been marked delivered without
\* any Delivery row of its own
C13_Witness ==
  \E k \in 1..Len(replayQueue) :
    /\ replayQueue[k].status = "delivered"
    /\ replayQueue[k].attempts = 0
    /\ events[replayQueue[k].eventId].providerEventId # Null
    /\ \A d \in 1..Len(deliveries) : deliveries[d].eventId # replayQueue[k].eventId

\* the health check that run p records moves endpoint id from OPEN to HALF_OPEN
MovedToHalfOpen(id) ==
  endpoints[id].circuitState = "open" /\ endpoints'[id].circuitState = "half_open"

\* run p goes on to emit endpoint/replay-started
GoesToEmit(p) == prober[p].pc = "check" /\ prober'[p].pc = "emit"

\* C14: the health prober emits endpoint/replay-started once for each
\* OPEN -> HALF_OPEN transition and for nothing else: a run goes on to the emit
\* exactly when the health check it has just recorded moved the endpoint from
\* OPEN to HALF_OPEN, also when two runs overlap.
C14_EmitOncePerTransition ==
  [][\A p \in Probers, id \in EndpointIds :
       (prober[p].pc = "check" /\ prober'[p].pc # "check") =>
         (GoesToEmit(p) <=> MovedToHalfOpen(id))]_vars

\* handler w emits a webhook/retry task
RetryEmitted(w) == wk[w].pc = "emit_retry" /\ wk'[w].pc # "emit_retry"

\* handler w inserts the Delivery row of its attempt
AttemptRecorded(w) == wk[w].pc = "record" /\ wk'[w].pc # "record"

RowsOf(e) == {k \in 1..Len(deliveries) : deliveries[k].eventId = e}

NoRetryErrors == {"ssl", "connection_refused"}

\* C16: once a Delivery with error_type ssl or connection_refused is recorded
\* for an event, no later Delivery row of the same event is created (every row
\* of these runs is written by the worker, the retry handler or the replay
\* engine, none by hand).
C16_NoAttemptAfterFatalError ==
  \A k, l \in 1..Len(deliveries) :
    (k < l /\ deliveries[k].eventId = deliveries[l].eventId)
      => deliveries[k].errorType \notin NoRetryErrors

\* the error_type of the delivery a handler's recordDeliveryResult call is about
RecordedErrorType ==
  IF \E r \in Runs : replay[r].pc = "circuit_update" /\ replay'[r].pc # "circuit_update"
    THEN {replay[r].errorType : r \in {o \in Runs : replay[o].pc = "circuit_update"
                                                    /\ replay'[o].pc # "circuit_update"}}
    ELSE {wk[w].errorType : w \in {o \in Workers : wk[o].pc = "breaker"
                                                    /\ wk'[o].pc # "breaker"}}

\* C17: a failed delivery classified ssl or connection_refused trips the
\* circuit: once it is recorded on a CLOSED endpoint the endpoint is OPEN.
C17_FatalErrorOpensCircuit ==
  [][\A id \in EndpointIds :
       ( /\ DeliveryRecorded
         /\ endpoints[id].circuitState = "closed"
         /\ RecordedErrorType \cap NoRetryErrors # {} )
         => endpoints'[id].circuitState = "open"]_vars

\* the seconds the retry of a 429 has to wait: the Retry-After value, 60 when
\* the header is missing or is no number
RetryAfterSeconds(h) == IF h = "7" THEN 7 ELSE IF h = "0" THEN 0 ELSE 60

\* the delivery worker w returns
WorkerReturns(w) == wk[w].kind = "deliver" /\ wk[w].pc # "idle" /\ wk'[w].pc = "idle"

\* C18: a delivery worker whose first attempt got a 429 returns only by
\* emitting one webhook/retry at attempt 2, after a sleep of at least the
\* Retry-After seconds (60 when the header is missing or no number), for every
\* Retry-After value, 0 included; the second attempt, when it succeeds, is
\* recorded as a delivered Delivery with attempt_number 2.
C18_RateLimitRetriedAfterDelay ==
  [][\A w \in Workers :
       /\ (WorkerReturns(w) /\ wk[w].statusCode = 429) =>
            /\ RetryEmitted(w)
            /\ wk[w].sleptSec >= RetryAfterSeconds(wk[w].retryAfterHeader)
            /\ \E t \in retryQ' \ retryQ :
                 t.eventId = wk[w].eventId /\ t.attemptNumber = 2
       /\ (AttemptRecorded(w) /\ wk[w].kind = "retry" /\ wk[w].success) =>
            /\ deliveries'[Len(deliveries')].status = "delivered"
            /\ deliveries'[Len(deliveries')].attemptNumber = 2
            /\ deliveries'[Len(deliveries')].eventId = wk[w].eventId]_vars

\* C19: no two Delivery rows share (event_id, attempt_number), whichever of
\* the delivery worker, the retry handler, the replay engine and a manual
\* replay wrote them.
C19_AttemptNumbersDistinct ==
  \A k, l \in 1..Len(deliveries) :
    (k < l /\ deliveries[k].eventId = deliveries[l].eventId)
      => deliveries[k].attemptNumber # deliveries[l].attemptNumber

\* a webhook/received task for Event e enters the queue
ReceivedEmitted(e) == rcvQ'[e] > rcvQ[e]

\* C20: at most one webhook/received task is ever emitted for an Event id,
\* counting ingestion and the manual replay API: a task for an Event enters
\* the queue only if none was emitted for that Event before.
C20_OneReceivedTaskPerEvent ==
  [][\A e \in 1..MaxEvents : ReceivedEmitted(e) => e \notin hist.emitted]_vars

\* the step that answers a request leaves the events table and the
\* webhook/received tasks as they were
NothingStored ==
  events' = events /\ sendInFlight' = sendInFlight /\ rcvQ' = rcvQ

\* C21: a request is answered 404 when its integration is unknown and 409 when
\* the integration is not active, in both cases without storing an Event or
\* emitting webhook/received; a request to an active integration is answered
\* 200 whatever its body and signature.
C21_IngestionAnswers ==
  [][(req' # req /\ req'.pc = "done") =>
       IF req'.integrationId \notin IntegrationIds
         THEN req'.status = 404 /\ NothingStored
       ELSE IF IntegrationStatus(req'.integrationId) # "active"
         THEN req'.status = 409 /\ NothingStored
       ELSE req'.status = 200]_vars

\* the request is to an active integration
ToActive(r) ==
  r.integrationId \in IntegrationIds /\ IntegrationStatus(r.integrationId) = "active"

\* C22: a request to an active integration whose signature does not verify is
\* accepted like a validly signed one: its Event is stored with
\* signature_valid = false, the send of its webhook/received task is started
\* with the insert, and it is answered 200.
C22_InvalidSignatureAccepted ==
  [][/\ (req' # req /\ req'.pc = "done" /\ ToActive(req') /\ ~req'.valid) =>
          /\ req'.status = 200
          /\ req'.eventId \in 1..Len(events')
          /\ ~events'[req'.eventId].signatureValid
     /\ (req.pc = "store" /\ req'.pc = "respond") =>
          /\ events' = Append(events, NewEventRow(req))
          /\ events'[req'.eventId].signatureValid = req.valid
          /\ sendInFlight' = sendInFlight \cup {req'.eventId}]_vars

\* a request with an invalid signature has been answered 200, its Event is
\* stored as not valid and its webhook/received task is in the queue
C22_Witness ==
  /\ req.pc = "done" /\ req.status = 200 /\ ~req.valid
  /\ ~events[req.eventId].signatureValid
  /\ rcvQ[req.eventId] > 0

\* delivery worker w POSTs in this step for an endpoint it read as HALF_OPEN
HalfOpenPost(w) ==
  /\ wk[w].kind = "deliver" /\ wk[w].circuitState = "half_open"
  /\ wk[w].pc = "deliver" /\ wk'[w].pc = "record"

\* delivery worker o has started the 1 s sleep of a HALF_OPEN delivery and has not
\* POSTed yet
SleepStarted(o) ==
  /\ wk[o].kind = "deliver" /\ wk[o].circuitState = "half_open"
  /\ wk[o].pc \in {"throttle", "deliver"}

\* C28: the delivery worker sends at most one POST per second to a HALF_OPEN
\* endpoint, whatever the number of tasks handled at once.  A run POSTs 1 s after
\* the start of its sleep, so two POSTs are sure to be 1 s apart only when the
\* sleep of the second starts after the first POST: no run POSTs while another
\* run's sleep for the same endpoint has already started.
C28_HalfOpenOnePostPerSecond ==
  [][\A w \in Workers :
       HalfOpenPost(w) => ~\E o \in Workers \ {w} : SleepStarted(o)]_vars

\* the retry handler takes task t in this step and returns at once
RetryReturnsUnhandled(t) == t \in retryQ /\ t \notin retryQ' /\ wk' = wk

\* C29: when the retry handler finds the endpoint OPEN and returns without
\* retrying, a pending ReplayQueueItem of that event exists on the endpoint.
C29_UnretriedEventIsQueued ==
  [][\A t \in retryQ :
       (RetryReturnsUnhandled(t) /\ endpoints[ReplayEndpoint].circuitState = "open") =>
         \E k \in 1..Len(replayQueue') :
           /\ replayQueue'[k].eventId = t.eventId
           /\ replayQueue'[k].endpointId = ReplayEndpoint
           /\ replayQueue'[k].status = "pending"]_vars

\* a recordDeliveryResult call moves endpoint id into OPEN in this step
OpenedByDelivery(id) ==
  /\ DeliveryRecorded
  /\ endpoints[id].circuitState # "open"
  /\ endpoints'[id].circuitState = "open"

\* the handler whose call returns in this step goes on to emit
\* endpoint/circuit-opened
GoesToEmitOpened ==
  \E w \in Workers : wk[w].pc = "breaker" /\ wk'[w].pc = "emit_opened"

\* C30: every transition into OPEN caused by recordDelivery is followed by
\* exactly one endpoint/circuit-opened emission, whichever handler recorded
\* the delivery: the recording handler goes on to the emit step, and the
\* emissions grow only there, by one.
C30_OpenedIsEmittedOnce ==
  [][/\ \A id \in EndpointIds : OpenedByDelivery(id) => GoesToEmitOpened
     /\ circuitOpened' # circuitOpened =>
          /\ circuitOpened' = circuitOpened + 1
          /\ \E w \in Workers : wk[w].pc = "emit_opened" /\ wk'[w].pc # "emit_opened"]_vars

\* the listed ids no Event of integration i carries as its provider_event_id
Unmatched(listing, i) ==
  {x \in listing :
     ~\E k \in 1..Len(events) :
        events[k].integrationId = i /\ events[k].providerEventId = x}

\* Event e is the one a reconciliation cycle creates for the listed id x of
\* integration i, and one webhook/received task has been emitted for it
FillsGap(e, x, i) ==
  /\ e \in 1..Len(events)
  /\ events[e].integrationId = i
  /\ events[e].providerEventId = x
  /\ events[e].source = "reconciliation"
  /\ events[e].signatureValid
  /\ events[e].headers = {}
  /\ rcvQ[e] = 1

ProviderSideEvent(row) == row.payload.id

\* C24: reconciliation inserts an Event only for a provider-side event the
\* system holds no Event of: never for one already received by webhook for the
\* same integration (Stripe events and Shopify orders alike), and never for one
\* an earlier cycle has inserted (a second cycle over an unchanged listing
\* inserts nothing).
C24_GapsAreUnreceivedEvents ==
  [][(recon.pc = "insert" /\ recon'.pc = "send") =>
       LET new == events'[Len(events')]
       IN ~\E k \in 1..Len(events) :
             /\ events[k].integrationId = new.integrationId
             /\ ProviderSideEvent(events[k]) = ProviderSideEvent(new)]_vars

\* C25: every reconciliation cycle of an active integration with an API key
\* persists exactly one ReconciliationRun row, with or without gaps and
\* whatever the provider API call did: between two cycles the table holds one
\* row per cycle run.
C25_OneRunRowPerCycle ==
  recon.pc = "idle" => Len(reconciliationRuns) = hist.cycles

\* C26: breaker updates are atomic per endpoint.  Whatever calls of
\* recordDeliveryResult and recordHealthCheckResult overlap on one endpoint,
\* at most one of them holds the row at a time; the call that has updated the
\* row found the state, and leaves the row, that the same call gives when the
\* calls are applied one at a time in the order they commit (so no increment is
\* lost and no transition is taken twice); and once no call holds the row, the
\* endpoints row is the row of that one-at-a-time application.
C26_BreakerCallsSerialize ==
  /\ Cardinality(LockHolders) <= 1
  /\ \A c \in Calls :
       tx[c].pc = "updated" =>
         /\ tx[c].previousState = hist.serial.circuitState
         /\ tx[c].row = SerialAfter(c)
  /\ LockHolders = {} => endpoints[BreakerEndpoint] = hist.serial

\* two failed deliveries race on a CLOSED endpoint: one has taken it to OPEN and
\* not yet committed, the other waits for the row
C26_Witness ==
  \E c \in Calls : \E o \in Calls \ {c} :
    /\ tx[c].pc = "updated" /\ tx[c].kind = "delivery" /\ ~tx[c].success
    /\ tx[c].previousState = "closed" /\ tx[c].row.circuitState = "open"
    /\ tx[o].pc = "begun" /\ tx[o].kind = "delivery" /\ ~tx[o].success

\* C27: every integration created through the management API has an endpoints
\* row, so that no delivery worker handling one of its events is on the
\* direct-delivery path and no Delivery of its events lacks the endpoint.
C27_CreatedIntegrationHasEndpoint ==
  /\ \A i \in created : getEndpointForIntegration(i) # Null
  /\ \A w \in Workers : wk[w].pc \notin {"direct_deliver", "direct_record"}
  /\ \A k \in 1..Len(deliveries) : deliveries[k].endpointId # Null

\* should_retry of the classification table, by error type
ShouldRetry(errorType) == errorType \in {"timeout", "rate_limit", "server_error", "unknown"}

\* C31: a delivery worker whose first attempt failed returns by emitting one
\* webhook/retry at attempt 2 (timeout 10 s after a timeout, 5 s otherwise)
\* when the classification of the failure has should_retry = yes, the first
\* retry of the event; and emits none when it has should_retry = no.
C31_RetryFollowsShouldRetry ==
  [][\A w \in Workers :
       (WorkerReturns(w) /\ wk[w].errorType # Null) =>
         IF ShouldRetry(wk[w].errorType)
         THEN /\ RetryEmitted(w)
              /\ wk[w].eventId \notin hist.retried
              /\ \E t \in retryQ' :
                   /\ retryQ' = retryQ \cup {t} /\ t \notin retryQ
                   /\ t.eventId = wk[w].eventId /\ t.attemptNumber = 2
                   /\ t.timeoutMs = IF wk[w].errorType = "timeout" THEN 10000 ELSE 5000
         ELSE ~RetryEmitted(w) /\ retryQ' = retryQ]_vars

\* the rules of the classification table, in table order
Rules == 1..7

\* rule n of the table applies to the call c
RuleMatches(n, c) ==
  IF n = 1 THEN c.error \cap {"abort", "timeout"} # {}
  ELSE IF n = 2 THEN c.error \cap {"ssl", "tls", "certificate"} # {}
  ELSE IF n = 3 THEN c.error \cap {"econnrefused", "enotfound", "connection refused"} # {}
  ELSE IF n = 4 THEN c.statusCode = 429
  ELSE IF n = 5 THEN c.statusCode = 503
  ELSE IF n = 6 THEN c.statusCode # NoStatus /\ c.statusCode >= 500
  ELSE TRUE

\* the delay of the 429 rule: parseInt(retry_after) * 1000, else 60 000
TableRateLimitDelay(h) ==
  IF h = "7" THEN 7000 ELSE IF h = "0" THEN 0 ELSE 60000

\* what rule n of the table gives for the call c
RuleOutcome(n, c) ==
  IF n = 1 THEN [errorType |-> "timeout", shouldRetry |-> TRUE,
                 retryDelayMs |-> NoDelay, shouldOpenCircuit |-> FALSE]
  ELSE IF n = 2 THEN [errorType |-> "ssl", shouldRetry |-> FALSE,
                      retryDelayMs |-> NoDelay, shouldOpenCircuit |-> TRUE]
  ELSE IF n = 3 THEN [errorType |-> "connection_refused", shouldRetry |-> FALSE,
                      retryDelayMs |-> NoDelay, shouldOpenCircuit |-> TRUE]
  ELSE IF n = 4 THEN [errorType |-> "rate_limit", shouldRetry |-> TRUE,
                      retryDelayMs |-> TableRateLimitDelay(c.retryAfterHeader),
                      shouldOpenCircuit |-> FALSE]
  ELSE IF n = 5 THEN [errorType |-> "server_error", shouldRetry |-> TRUE,
                      retryDelayMs |-> 30000, shouldOpenCircuit |-> FALSE]
  ELSE IF n = 6 THEN [errorType |-> "server_error", shouldRetry |-> TRUE,
                      retryDelayMs |-> NoDelay, shouldOpenCircuit |-> FALSE]
  ELSE [errorType |-> "unknown", shouldRetry |-> TRUE,
        retryDelayMs |-> NoDelay, shouldOpenCircuit |-> FALSE]

\* the first rule, in table order, that applies to the call c
FirstMatch(c) ==
  CHOOSE n \in Rules : RuleMatches(n, c) /\ \A m \in Rules : m < n => ~RuleMatches(m, c)

\* C32: for every combination of status code, error message and Retry-After
\* header, classifyDeliveryError returns what the first matching rule of the
\* table gives: abort/timeout before ssl/tls/certificate, before
\* econnrefused/enotfound/connection refused, and any message match before the
\* status rules 429, 503, >= 500, otherwise unknown.
C32_FirstMatchingRule ==
  clsCall.pc = "returned" => clsCall.result = RuleOutcome(FirstMatch(clsCall), clsCall)

\* a message naming a timeout and a certificate, with status 429: classified timeout
C32_Witness ==
  /\ clsCall.pc = "returned"
  /\ {"timeout", "certificate"} \subseteq clsCall.error
  /\ clsCall.statusCode = 429
  /\ clsCall.result.errorType = "timeout"

\* C33: a recordHealthCheckResult call that finds the endpoint in a state
\* other than OPEN executes no update of the row (so no column of it changes,
\* last_health_check and state_changed_at included), returns the state it
\* found as the new state, and leaves the endpoints row as it was when the
\* call commits.
C33_HealthCheckIgnoredUnlessOpen ==
  [][\A c \in Calls :
       (tx[c].kind = "health" /\ tx[c].pc = "updated" /\ tx[c].previousState # "open") =>
         /\ ~tx[c].wrote
         /\ tx[c].row = endpoints[BreakerEndpoint]
         /\ tx[c].row.circuitState = tx[c].previousState
         /\ tx'[c].pc = "idle" => endpoints' = endpoints]_vars

\* a successful probe has been recorded on a HALF_OPEN endpoint whose row
\* counts probes of the OPEN period before
C33_Witness ==
  \E c \in Calls :
    /\ tx[c].kind = "health" /\ tx[c].pc = "updated" /\ tx[c].success
    /\ tx[c].previousState = "half_open"
    /\ \E o \in Calls \ {c} : tx[o].pc = "begun"

\* the POSTs the replay engine has sent for the ReplayQueueItem k: the Delivery
\* rows of its Event (an Event that was enqueued is delivered by replay runs
\* only) and the POSTs not recorded yet
ReplayPostsOf(k) ==
  Cardinality(RowsOf(replayQueue[k].eventId))
    + Cardinality({r \in Runs : replay[r].pc = "record" /\ Item(r).id = k})

\* C34: a replay item is POSTed at most MAX_SKIP_ATTEMPTS (3) times over all
\* replay runs.  A POST of an item is its first, second or third and the item's
\* attempts counter says how many were sent; an item whose counter has reached
\* 3 is skipped at its next turn instead of being sent; and the counter of an
\* item changes only by one, upwards, when a run takes it for a POST.
C34_AtMostThreeReplayPosts ==
  [][/\ \A r \in Runs :
          /\ ReplayPostSent(r) =>
               /\ ReplayPostsOf(Item(r).id) < MAX_SKIP_ATTEMPTS
               /\ replayQueue[Item(r).id].attempts = ReplayPostsOf(Item(r).id) + 1
          /\ (replay[r].pc = "dedup_check" /\ replay'[r].pc # "dedup_check"
                /\ replayQueue[Item(r).id].attempts >= MAX_SKIP_ATTEMPTS)
               => replay'[r].pc \in {"skip_dedup", "skip_failed"}
     /\ \A k \in 1..Len(replayQueue) :
          replayQueue'[k].attempts # replayQueue[k].attempts =>
            /\ replayQueue'[k].attempts = replayQueue[k].attempts + 1
            /\ \E r \in Runs : replay[r].pc = "mark_delivering" /\ replay'[r].pc = "deliver"
                               /\ Item(r).id = k]_vars

\* run r is done with the item it is at without having delivered it: the item
\* is skipped (budget exhausted), or its POST failed and the breaker did not
\* reopen
LeavesItemUndelivered(r) ==
  \/ replay[r].pc = "skip_failed" /\ replay'[r].pc # "skip_failed"
  \/ /\ replay[r].pc = "mark" /\ replay'[r].pc # "mark"
     /\ ~replay[r].success /\ replay[r].newState # "open"

\* run r goes on with the rest of its batch, and with a new batch after it
GoesOn(r) ==
  IF replay[r].idx < Len(replay[r].batch)
  THEN /\ replay'[r].pc = "pre_check"
       /\ replay'[r].batch = replay[r].batch
       /\ replay'[r].idx = replay[r].idx + 1
  ELSE replay'[r].pc = "check_state"

RunRows == SubSeq(deliveries, Len(OpeningRows) + 1, Len(deliveries))

\* the number of successful sends at the end of rows, back to the last failed one
RECURSIVE TrailingDelivered(_)
TrailingDelivered(rows) ==
  IF rows = << >> \/ rows[Len(rows)].status # "delivered" THEN 0
  ELSE 1 + TrailingDelivered(SubSeq(rows, 1, Len(rows) - 1))

\* the tier after a streak of successful sends: one step per 5, up to the last
TierOfStreak(streak) ==
  IF streak \div 5 >= 3 THEN 3 ELSE streak \div 5

\* the run has accounted for every send recorded so far
TierSettled(r) == replay[r].pc \notin {"idle", "circuit_update", "mark"}

\* run r is done with an item it did not send
ItemSkipped(r) ==
  /\ replay[r].pc \in {"skip_dedup", "skip_failed"}
  /\ replay'[r].pc \notin {"skip_dedup", "skip_failed"}

\* C36: the rate of a replay run is one of 1, 2, 5, 10 ev/s; between two sends
\* it is the tier of the streak of successful sends since the last failed one
\* (or since the start of the run): 1 ev/s for a streak below 5 (so at the
\* start and after any failed send), one step more for each 5 successes, 10
\* at most.  A step that resolves an item by dedup or skip changes neither the
\* tier nor the streak.
C36_RateTierFollowsStreak ==
  /\ [](\A r \in Runs :
          /\ CurrentRate(replay[r]) \in {1, 2, 5, 10}
          /\ replay[r].currentTierIndex \in 0..3
          /\ TierSettled(r) =>
               CurrentRate(replay[r]) = RATE_TIERS[TierOfStreak(TrailingDelivered(RunRows)) + 1])
  /\ [][\A r \in Runs :
          /\ ItemSkipped(r) =>
               /\ replay'[r].currentTierIndex = replay[r].currentTierIndex
               /\ replay'[r].consecutiveSuccesses = replay[r].consecutiveSuccesses
               /\ deliveries' = deliveries
          /\ (replay[r].pc = "idle" /\ replay'[r].pc # "idle") =>
               CurrentRate(replay'[r]) = 1]_vars

\* the run sends at 10 ev/s, having skipped a duplicate on its way, and goes on
\* past 20 successful sends in a row
C36_Witness ==
  /\ replay["r1"].pc = "deliver"
  /\ CurrentRate(replay["r1"]) = 10
  /\ TrailingDelivered(RunRows) > 20
  /\ \E k \in 1..Len(replayQueue) :
       /\ replayQueue[k].status = "delivered"
       /\ \A d \in 1..Len(deliveries) : deliveries[d].eventId # replayQueue[k].eventId

\* after a failed send the run is back at 1 ev/s, from a higher tier
C36_WitnessDrop ==
  /\ replay["r1"].pc = "pre_check"
  /\ CurrentRate(replay["r1"]) = 1
  /\ Len(RunRows) > 5
  /\ RunRows[Len(RunRows)].status = "failed"
  /\ TrailingDelivered(SubSeq(RunRows, 1, Len(RunRows) - 1)) >= 5

\* run r returns
RunEnds(r) == replay[r].pc # "idle" /\ replay'[r].pc = "idle"

\* C37 as stated: every replay run terminates, whatever the destination
\* answers (no item is enqueued during the run), and at the step a run returns
\* the endpoint has no pending ReplayQueueItem or the breaker is OPEN.
C37_EndsDrainedOrOpen ==
  /\ \A r \in Runs : (replay[r].pc # "idle") ~> (replay[r].pc = "idle")
  /\ [][\A r \in Runs :
          RunEnds(r) =>
            \/ PendingIds(replayQueue', ReplayEndpoint) = {}
            \/ endpoints'[ReplayEndpoint].circuitState = "open"]_vars

\* C37 (amended): every replay run terminates, whatever the destination
\* answers, and it returns at a fetch that finds no pending ReplayQueueItem, at
\* a check that finds the breaker OPEN, or after a failed send whose
\* recordDeliveryResult call moved the breaker to OPEN (or found it OPEN).
C37_ReplayRunTerminates ==
  /\ \A r \in Runs : (replay[r].pc # "idle") ~> (replay[r].pc = "idle")
  /\ [][\A r \in Runs :
          RunEnds(r) =>
            \/ /\ replay[r].pc = "fetch_batch"
               /\ PendingIds(replayQueue, ReplayEndpoint) = {}
            \/ /\ replay[r].pc \in {"check_state", "pre_check"}
               /\ endpoints[ReplayEndpoint].circuitState = "open"
            \/ /\ replay[r].pc = "mark"
               /\ ~replay[r].success
               /\ replay[r].newState = "open"]_vars

\* the run has returned with the queue drained, after an item was skipped and
\* others were delivered
C37_Witness ==
  /\ replay["r1"].pc = "idle" /\ replayStartedQ = 0
  /\ PendingIds(replayQueue, ReplayEndpoint) = {}
  /\ endpoints[ReplayEndpoint].circuitState # "open"
  /\ \E k \in 1..Len(replayQueue) : replayQueue[k].status = "skipped"
  /\ \E k \in 1..Len(replayQueue) : replayQueue[k].status = "delivered"

\* C38: a recordDeliveryResult call that moves an endpoint from CLOSED to OPEN
\* was given success = false (recording a successful delivery never opens the
\* circuit).
C38_SuccessNeverOpens ==
  [][\A id \in EndpointIds :
       (DeliveryRecorded /\ endpoints[id].circuitState = "closed"
          /\ endpoints'[id].circuitState = "open") => ~RecordedSuccess]_vars

\* a delivered Delivery exists for an Event of the integration of Event e that
\* carries the provider event id of e
DeliveredInSameIntegration(e) ==
  \E d \in 1..Len(deliveries) :
    /\ deliveries[d].status = "delivered"
    /\ events[deliveries[d].eventId].providerEventId = events[e].providerEventId
    /\ events[deliveries[d].eventId].integrationId = events[e].integrationId

\* C39: the replay engine marks an item delivered without sending only when a
\* delivered Delivery exists for an Event of the same integration with the
\* same provider_event_id; a Delivery of an Event of another integration does
\* not count.
C39_DedupWithinIntegration ==
  [][\A r \in Runs :
       (DedupDecided(r) /\ replay'[r].pc = "skip_dedup") =>
         DeliveredInSameIntegration(replayQueue[Item(r).id].eventId)]_vars

\* the items of its current batch that run r has been through (the item it is
\* at included, once it was marked delivering)
HandledInBatch(r) ==
  {replay[r].batch[k].id :
     k \in 1..(IF replay[r].pc \in {"deliver", "record", "circuit_update", "mark"}
               THEN replay[r].idx ELSE replay[r].idx - 1)}

\* C40: at the step a replay run returns, none of the items it has been
\* through is in status delivering; and an item in status delivered or skipped
\* never changes status again.
C40_NoItemLeftDelivering ==
  [][/\ \A r \in Runs :
          RunEnds(r) => \A k \in HandledInBatch(r) : replayQueue'[k].status # "delivering"
     /\ \A k \in 1..Len(replayQueue) :
          replayQueue[k].status \in {"delivered", "skipped"} =>
            replayQueue'[k].status = replayQueue[k].status]_vars

====
